---- MODULE Spec2Model ----
(***************************************************************************)
(* Model of the business-state module of tiny-business-manager             *)
(* (src/src/context/BusinessContext.tsx) together with the page handlers   *)
(* that call it (Invoicing, Administration, Customers), and of the         *)
(* authentication (AuthContext.tsx, PrivateRoute, Login, Header).          *)
(*                                                                         *)
(* Numbers.  JavaScript numbers are modelled as exact decimals held in     *)
(* integers: a quantity or a stock is an integer number of 1/10000 units   *)
(* (4 decimal places), money is an integer number of cents, the exchange   *)
(* rate an integer number of tenths of a BS per USD.  toFixed(2) is the    *)
(* rounding of ECMAScript (nearest, a tie to the larger value); the binary *)
(* representation error of doubles is not modelled, and the values drawn   *)
(* by the specifications never produce a tie.                              *)
(***************************************************************************)
EXTENDS Integers, Sequences, FiniteSets, TLC

VARIABLES
    products,               \* useState<Product[]>
    cart,                   \* useState<CartItem[]>
    customers,              \* useState<Customer[]>
    categories,             \* useState<string[]>
    exchangeRate,           \* useState<number>, tenths of BS per USD
    isCheckoutDialogOpen,   \* Invoicing local state
    selectedCustomerId,     \* Invoicing local state
    paymentMethod,          \* Invoicing local state
    amountPaid,             \* Invoicing local state (text of the input)
    customerType,           \* Invoicing local state
    page,                   \* the route shown (the page component mounted)
    reader,                 \* the FileReader of an import whose read is pending
    storage,                \* localStorage: the texts under the business_ keys
    productCategories,      \* Administration local state: the labels shown
    lastExchangeRateUpdate, \* useState<Date | null>: 0 is null, else a time
    purchaseCount,          \* number of Purchase records created so far
    user,                   \* AuthProvider: useState<User | null>
    authStorage,            \* localStorage: the items auth_user and isAuthenticated
    privateRoute,           \* PrivateRoute local state (dialog, fields, isSubmitting)
    timers,                 \* the callbacks of setTimeout that have not run yet
    location,               \* the path of the URL
    last                    \* what the last handler did (toasts, record produced)

vars == << products, cart, customers, categories, exchangeRate,
           isCheckoutDialogOpen, selectedCustomerId, paymentMethod,
           amountPaid, customerType, page, reader, storage, productCategories,
           lastExchangeRateUpdate, purchaseCount, user, authStorage,
           privateRoute, timers, location, last >>

\* the state of BusinessProvider and of its pages, but the route
businessVars == << products, cart, customers, categories, exchangeRate,
                   isCheckoutDialogOpen, selectedCustomerId, paymentMethod,
                   amountPaid, customerType, reader, storage,
                   productCategories, lastExchangeRateUpdate, purchaseCount >>

\* the local state of the Invoicing page, and the route
dialogVars == << isCheckoutDialogOpen, selectedCustomerId, paymentMethod,
                 amountPaid, customerType, page >>

(***************************************************************************)
(* Bounds of the model                                                     *)
(***************************************************************************)
MaxProducts == 2
MaxCustomers == 2
MaxPurchases == 1
MaxBatch == 2
\* times are told apart up to this one
MaxTime == 4

(***************************************************************************)
(* Units and values                                                        *)
(***************************************************************************)
\* one whole unit of quantity, in 1/10000
Unit == 10000
\* selectedCustomerId = null
NoCustomer == 0
\* useState<number>(35.5)
DefaultExchangeRate == 355
DefaultCategories == << "BEBIDA", "ALIMENTOS", "LIMPIEZA", "OTROS" >>
PaymentMethods == { "cash", "pos", "biopayment", "credit" }
CustomerTypes == { "regular", "occasional" }

\* JSON / text-field values: k is "absent" (no field, or the empty string),
\* "text" (a text that parseFloat/parseInt turn into NaN) or "num" (value v)
Absent == [k |-> "absent", v |-> 0]
Text   == [k |-> "text",   v |-> 0]
Num(n) == [k |-> "num",    v |-> n]
\* NaN is a value of its own: every comparison with it is false
NaN == [nan |-> TRUE, v |-> 0]
Val(n) == [nan |-> FALSE, v |-> n]
\* A number field of a stored object holds a decimal or one of two values
\* that are no decimal: NaN, and the null JSON.stringify writes for it
NotANumber == 0 - 900000001
JSONNull == 0 - 900000002

Max(a, b) == IF a >= b THEN a ELSE b
Range(s) == { s[i] : i \in DOMAIN s }

\* x / d rounded to the nearest integer, a tie to the larger one (x >= 0, d > 0)
RoundDivNonNeg(x, d) == (2 * x + d) \div (2 * d)
RoundDiv(x, d) == IF x >= 0 THEN RoundDivNonNeg(x, d) ELSE 0 - RoundDivNonNeg(0 - x, d)

\* parseFloat(q.toFixed(2)) of a quantity: the nearest multiple of 0.01
toFixed2(q) == 100 * RoundDiv(q, 100)

\* String.prototype.toLowerCase / toUpperCase on the names the model uses
toLowerCase(s) == CASE s = "A" -> "a"
                    [] s = "B" -> "b"
                    [] OTHER -> s
toUpperCase(s) == CASE s = "a" -> "A"
                    [] s = "b" -> "B"
                    [] s = "bebida" -> "BEBIDA"
                    [] s = "Sin categoría" -> "SIN CATEGORÍA"
                    [] OTHER -> s

\* Array.prototype.find on a list of records with an id: the first match
FindIndex(list, id) ==
    IF \E i \in DOMAIN list : list[i].id = id
    THEN CHOOSE i \in DOMAIN list :
            /\ list[i].id = id
            /\ \A j \in DOMAIN list : list[j].id = id => i <= j
    ELSE 0

\* the record of what a handler did: the toast it showed (n is the count the
\* toast of an import displays), the Purchase it created, the warning toast
Outcome(op, outcome, purchase, warning) ==
    [op |-> op, outcome |-> outcome, purchase |-> purchase, warning |-> warning,
     n |-> 0]
ImportOutcome(n) ==
    [op |-> "uploadProductsFromJSON", outcome |-> "productos importados",
     purchase |-> << >>, warning |-> FALSE, n |-> n]

(***************************************************************************)
(* Calculations                                                            *)
(***************************************************************************)
\* faulty variant of LineUSD: the line is cut to 2 decimals
LineUSD_Truncated(item) == (item.price * item.quantity) \div Unit
\* cents: price (cents) * quantity (1/10000), rounded per line to 2 decimals
LineUSD(item) == RoundDiv(item.price * item.quantity, Unit)
\* cents: price * quantity * rate (tenths), rounded per line to 2 decimals
\* (x * rate / d is computed in two parts to stay within 32-bit integers)
LineBS(item, rate) ==
    LET x == item.price * item.quantity
        d == Unit * 10
    IN (x \div d) * rate + RoundDiv((x % d) * rate, d)

RECURSIVE SumUSD(_)
SumUSD(lines) ==
    IF lines = << >> THEN 0 ELSE LineUSD(Head(lines)) + SumUSD(Tail(lines))

RECURSIVE SumBS(_, _)
SumBS(lines, rate) ==
    IF lines = << >> THEN 0 ELSE LineBS(Head(lines), rate) + SumBS(Tail(lines), rate)

calculateSubtotalBS == SumBS(cart, exchangeRate)
calculateSubtotalUSD == SumUSD(cart)

(***************************************************************************)
(* Catalog                                                                 *)
(***************************************************************************)
\* A Product is [id, name, price, cost, profit_percentage (percent),
\* profit_margin, stock, category, sales_count]; the fields no operation of
\* the model reads (unit, key, notes, min_stock) are left out.

\* Date.now().toString() + Math.random()...: the n-th id generated for a
\* list is n, an id no earlier call generated
GenId(n) == n
\* the ids the records of import files carry themselves
FileIds == { 101, 102 }
\* the number of ids generated for the products of a list so far: the
\* generated ids of a list are handed out in order
RECURSIVE GeneratedIds(_)
GeneratedIds(list) ==
    IF list = << >> THEN 0
    ELSE LET rest == GeneratedIds(Tail(list)) IN
         IF Head(list).id \in FileIds THEN rest ELSE Max(Head(list).id, rest)

includes(list, x) == \E i \in DOMAIN list : list[i] = x

\* addCategory(category): the label is upper-cased (labels carry no
\* surrounding blanks in the model)
addCategory(category) ==
    LET trimmedCategory == toUpperCase(category) IN
    IF trimmedCategory = ""
    THEN /\ last' = Outcome("addCategory", "Categoría inválida", << >>, FALSE)
         /\ UNCHANGED << products, cart, customers, categories, exchangeRate, reader,
                         dialogVars, purchaseCount >>
    ELSE IF includes(categories, trimmedCategory)
    THEN /\ last' = Outcome("addCategory", "Categoría duplicada", << >>, FALSE)
         /\ UNCHANGED << products, cart, customers, categories, exchangeRate, reader,
                         dialogVars, purchaseCount >>
    ELSE /\ categories' = Append(categories, trimmedCategory)
         /\ last' = Outcome("addCategory", "Categoría añadida", << >>, FALSE)
         /\ UNCHANGED << products, cart, customers, exchangeRate, reader,
                         dialogVars, purchaseCount >>

\* addProduct(product): no validation, the category is registered when unseen
addProduct(product) ==
    LET newProduct == [id |-> GenId(GeneratedIds(products) + 1),
                       name |-> product.name,
                       price |-> product.price,
                       cost |-> product.cost,
                       profit_percentage |-> product.profit_percentage,
                       profit_margin |-> product.profit_margin,
                       stock |-> product.stock,
                       category |-> product.category,
                       sales_count |-> 0]
    IN /\ products' = Append(products, newProduct)
       /\ categories' = IF newProduct.category # "" /\ ~includes(categories, newProduct.category)
                        THEN Append(categories, newProduct.category)
                        ELSE categories
       /\ last' = Outcome("addProduct", "Producto añadido", << >>, FALSE)
       /\ UNCHANGED << cart, customers, exchangeRate, reader, dialogVars, purchaseCount >>

\* parseInt(text, 10) of a number of 1/10000 units: the integer part
parseInt(n) == IF n >= 0 THEN (n \div Unit) * Unit ELSE 0 - (((0 - n) \div Unit) * Unit)

\* onNewProductSubmit(data): the form accepts every stock text that parseInt
\* reads as a number; price = cost * (1 + profit_percentage / 100)
onNewProductSubmit(name, cost, profitPercentage, stock, category) ==
    /\ Len(products) < MaxProducts
    /\ addProduct([name |-> name,
                   cost |-> cost,
                   price |-> (cost * (100 + profitPercentage)) \div 100,
                   profit_percentage |-> profitPercentage,
                   profit_margin |-> (cost * (100 + profitPercentage)) \div 100 - cost,
                   stock |-> parseInt(stock),
                   category |-> category])

\* updateProductStock(productId, newStock)
updateProductStock(productId, newStock) ==
    IF newStock < 0
    THEN /\ last' = Outcome("updateProductStock", "Stock inválido", << >>, FALSE)
         /\ UNCHANGED << products, cart, customers, categories, exchangeRate, reader,
                         dialogVars, purchaseCount >>
    ELSE /\ products' = [i \in DOMAIN products |->
                            IF products[i].id = productId
                            THEN [products[i] EXCEPT !.stock = newStock]
                            ELSE products[i]]
         /\ last' = Outcome("updateProductStock", "Stock actualizado", << >>, FALSE)
         /\ UNCHANGED << cart, customers, categories, exchangeRate, reader,
                         dialogVars, purchaseCount >>

\* handleStockUpdate(productId): the text is read with parseInt and a
\* negative value is refused before the context is called
handleStockUpdate(productId, editStock) ==
    LET newStock == parseInt(editStock) IN
    IF newStock < 0
    THEN /\ last' = Outcome("handleStockUpdate", "Valor inválido", << >>, FALSE)
         /\ UNCHANGED << products, cart, customers, categories, exchangeRate, reader,
                         dialogVars, purchaseCount >>
    ELSE updateProductStock(productId, newStock)

(***************************************************************************)
(* Bulk import (reader.onload of uploadProductsFromJSON)                   *)
(***************************************************************************)
\* An item of the file is [name, price, stock, id, category]: name and
\* category are strings ("" when the field is missing), price and stock are
\* JSON values (Absent, Text, Num), id is 0 when the item carries none.

\* parseFloat(item.Precio || item.price || 0)
itemPrice(item) == CASE item.price.k = "text" -> NaN
                     [] item.price.k = "num" -> Val(item.price.v)
                     [] OTHER -> Val(0)
\* parseFloat(item.Costo || item.cost || 0), for a cost that is a number or
\* missing
itemCost(item) == IF item.cost.k = "num" THEN item.cost.v ELSE 0
\* cost > 0 ? ((price - cost) / cost) * 100 : 0, in percent (the values
\* drawn divide exactly)
itemProfitPercentage(item) ==
    IF itemCost(item) > 0
    THEN ((itemPrice(item).v - itemCost(item)) * 100) \div itemCost(item)
    ELSE 0
\* parseInt(item.Cantidad || item.stock || 0, 10): a text that is no number
\* gives NaN
itemStock(item) == CASE item.stock.k = "num" -> parseInt(item.stock.v)
                     [] item.stock.k = "text" -> NotANumber
                     [] OTHER -> 0
\* (item.Categoría || item.category || 'Sin categoría').toUpperCase()
itemCategory(item) ==
    toUpperCase(IF item.category # "" THEN item.category ELSE "Sin categoría")
\* name && !isNaN(price)
itemAccepted(item) == item.name # "" /\ ~itemPrice(item).nan

\* the loop over productsArray: the products pushed to newProducts, the
\* n-th pushed product taking the generated id GenId(base + n)
RECURSIVE importNewProducts(_, _)
importNewProducts(productsArray, base) ==
    IF productsArray = << >> THEN << >>
    ELSE LET item == Head(productsArray) IN
         IF itemAccepted(item)
         THEN << [id |-> IF item.id # 0 THEN item.id ELSE GenId(base + 1),
                  name |-> item.name,
                  price |-> itemPrice(item).v,
                  cost |-> itemCost(item),
                  profit_percentage |-> itemProfitPercentage(item),
                  profit_margin |-> itemPrice(item).v - itemCost(item),
                  stock |-> itemStock(item),
                  category |-> itemCategory(item),
                  sales_count |-> 0] >>
              \o importNewProducts(Tail(productsArray), base + 1)
         ELSE importNewProducts(Tail(productsArray), base)

\* the loop over productsArray: the labels pushed to newCategories
RECURSIVE importNewCategories(_, _, _)
importNewCategories(productsArray, seen, acc) ==
    IF productsArray = << >> THEN acc
    ELSE LET category == itemCategory(Head(productsArray)) IN
         IF category # "" /\ ~includes(seen, category) /\ ~includes(acc, category)
         THEN importNewCategories(Tail(productsArray), seen, Append(acc, category))
         ELSE importNewCategories(Tail(productsArray), seen, acc)

\* faulty variant of uniqueNewProducts: the names are compared as written
uniqueNewProducts_CaseSensitive(prev, newProducts) ==
    LET existingNames == { prev[i].name : i \in DOMAIN prev }
        Keep(p) == p.name \notin existingNames
    IN SelectSeq(newProducts, Keep)

\* the updater of setProducts: new products whose lower-cased name is the
\* name of no product of prev
uniqueNewProducts(prev, newProducts) ==
    LET existingNames == { toLowerCase(prev[i].name) : i \in DOMAIN prev }
        Keep(p) == toLowerCase(p.name) \notin existingNames
    IN SelectSeq(newProducts, Keep)

\* No read is pending
NoReader == << >>

\* A file is what JSON.parse makes of its text: an array of items, or a
\* SyntaxError
JSONFile(productsArray) == [parses |-> TRUE, productsArray |-> productsArray]
UnparseableFile == [parses |-> FALSE, productsArray |-> << >>]

\* uploadProductsFromJSON(file) up to reader.readAsText(file): the read is
\* pending, its handler holding the categories of the render that made the
\* call
uploadProductsFromJSON(file) ==
    /\ reader = NoReader
    /\ reader' = << [parses |-> file.parses, productsArray |-> file.productsArray,
                     categories |-> categories] >>
    /\ last' = Outcome("readAsText", "", << >>, FALSE)
    /\ UNCHANGED << products, cart, customers, categories, exchangeRate,
                    dialogVars, purchaseCount >>

\* faulty variant of onload: the new categories are registered before the
\* products of the file are counted
onload_CategoriesFirst(file, closure) ==
    LET productsArray == file.productsArray
        newProducts == importNewProducts(productsArray, GeneratedIds(products))
        newCategories == importNewCategories(productsArray, closure, << >>)
    IN IF ~file.parses
       THEN /\ last' = Outcome("uploadProductsFromJSON", "Error al procesar el archivo",
                               << >>, FALSE)
            /\ UNCHANGED << products, cart, customers, categories, exchangeRate,
                            dialogVars, purchaseCount >>
       ELSE IF Len(productsArray) = 0
       THEN /\ last' = Outcome("uploadProductsFromJSON", "JSON vacío", << >>, FALSE)
            /\ UNCHANGED << products, cart, customers, categories, exchangeRate,
                            dialogVars, purchaseCount >>
       ELSE IF Len(newProducts) > 0
       THEN /\ categories' = categories \o newCategories
            /\ products' = products \o uniqueNewProducts(products, newProducts)
            /\ last' = ImportOutcome(Len(uniqueNewProducts(products, newProducts)))
            /\ UNCHANGED << cart, customers, exchangeRate, dialogVars, purchaseCount >>
       ELSE /\ categories' = categories \o newCategories
            /\ last' = Outcome("uploadProductsFromJSON",
                               "No se encontraron productos válidos", << >>, FALSE)
            /\ UNCHANGED << products, cart, customers, exchangeRate,
                            dialogVars, purchaseCount >>

\* the body of reader.onload: file is the text read, closure the categories
\* the handler holds
onload(file, closure) ==
    LET productsArray == file.productsArray
        newProducts == importNewProducts(productsArray, GeneratedIds(products))
        newCategories == importNewCategories(productsArray, closure, << >>)
    IN IF ~file.parses
       THEN /\ last' = Outcome("uploadProductsFromJSON", "Error al procesar el archivo",
                               << >>, FALSE)
            /\ UNCHANGED << products, cart, customers, categories, exchangeRate,
                            dialogVars, purchaseCount >>
       ELSE IF Len(productsArray) = 0
       THEN /\ last' = Outcome("uploadProductsFromJSON", "JSON vacío", << >>, FALSE)
            /\ UNCHANGED << products, cart, customers, categories, exchangeRate,
                            dialogVars, purchaseCount >>
       ELSE IF Len(newProducts) > 0
       THEN /\ categories' = categories \o newCategories
            /\ products' = products \o uniqueNewProducts(products, newProducts)
            /\ last' = ImportOutcome(Len(uniqueNewProducts(products, newProducts)))
            /\ UNCHANGED << cart, customers, exchangeRate, dialogVars, purchaseCount >>
       ELSE /\ last' = Outcome("uploadProductsFromJSON",
                               "No se encontraron productos válidos", << >>, FALSE)
            /\ UNCHANGED << products, cart, customers, categories, exchangeRate,
                            dialogVars, purchaseCount >>

\* the pending read ends: reader.onload runs
readerOnload ==
    /\ reader # NoReader
    /\ onload(reader[1], reader[1].categories)
    /\ reader' = NoReader

\* the pending read fails: reader.onerror runs
readerOnerror ==
    /\ reader # NoReader
    /\ reader' = NoReader
    /\ last' = Outcome("uploadProductsFromJSON", "Error al leer el archivo", << >>, FALSE)
    /\ UNCHANGED << products, cart, customers, categories, exchangeRate,
                    dialogVars, purchaseCount >>

(***************************************************************************)
(* Cart                                                                    *)
(***************************************************************************)
\* { ...product, quantity }
CartItem(product, quantity) == [quantity |-> quantity] @@ product

\* the updater of setCart in addToCart
addToCartUpdater(prev, product, quantity) ==
    LET i == FindIndex(prev, product.id) IN
    IF i # 0
    THEN LET totalQuantity == toFixed2(prev[i].quantity + quantity) IN
         IF totalQuantity > product.stock
         THEN prev
         ELSE [j \in DOMAIN prev |->
                  IF prev[j].id = product.id
                  THEN [prev[j] EXCEPT !.quantity = totalQuantity]
                  ELSE prev[j]]
    ELSE Append(prev, CartItem(product, quantity))

\* addToCart(product, quantity)
addToCart(product, quantity) ==
    IF quantity <= 0
    THEN /\ last' = Outcome("addToCart", "Cantidad inválida", << >>, FALSE)
         /\ UNCHANGED << products, cart, customers, categories, exchangeRate, reader,
                         dialogVars, purchaseCount >>
    ELSE IF quantity > product.stock
    THEN /\ last' = Outcome("addToCart", "Stock insuficiente", << >>, FALSE)
         /\ UNCHANGED << products, cart, customers, categories, exchangeRate, reader,
                         dialogVars, purchaseCount >>
    ELSE /\ cart' = addToCartUpdater(cart, product, quantity)
         /\ last' = Outcome("addToCart", "Producto añadido al carrito", << >>, FALSE)
         /\ UNCHANGED << products, customers, categories, exchangeRate, reader,
                         dialogVars, purchaseCount >>

\* handleAddToCart(product, quantity): the quantity typed, of at most 4
\* decimals, for a product of the list shown
handleAddToCart(product, quantity) ==
    IF quantity <= 0
    THEN /\ last' = Outcome("handleAddToCart", "Cantidad inválida", << >>, FALSE)
         /\ UNCHANGED << products, cart, customers, categories, exchangeRate, reader,
                         dialogVars, purchaseCount >>
    ELSE IF quantity > product.stock
    THEN /\ last' = Outcome("handleAddToCart", "Stock insuficiente", << >>, FALSE)
         /\ UNCHANGED << products, cart, customers, categories, exchangeRate, reader,
                         dialogVars, purchaseCount >>
    ELSE addToCart(product, quantity)

\* the updater of setCart in removeFromCart
removeFromCartUpdater(prev, productId) ==
    LET Keep(item) == item.id # productId IN SelectSeq(prev, Keep)

\* removeFromCart(productId)
removeFromCart(productId) ==
    /\ cart' = removeFromCartUpdater(cart, productId)
    /\ last' = Outcome("removeFromCart", "", << >>, FALSE)
    /\ UNCHANGED << products, customers, categories, exchangeRate, reader,
                    dialogVars, purchaseCount >>

\* updateCartItemQuantity(productId, quantity)
updateCartItemQuantity(productId, quantity) ==
    LET p == FindIndex(products, productId) IN
    IF quantity <= 0
    THEN /\ cart' = removeFromCartUpdater(cart, productId)
         /\ last' = Outcome("updateCartItemQuantity", "removed", << >>, FALSE)
         /\ UNCHANGED << products, customers, categories, exchangeRate, reader,
                         dialogVars, purchaseCount >>
    ELSE IF p # 0 /\ quantity > products[p].stock
    THEN /\ last' = Outcome("updateCartItemQuantity", "Stock insuficiente", << >>, FALSE)
         /\ UNCHANGED << products, cart, customers, categories, exchangeRate, reader,
                         dialogVars, purchaseCount >>
    ELSE /\ cart' = [j \in DOMAIN cart |->
                        IF cart[j].id = productId
                        THEN [cart[j] EXCEPT !.quantity = toFixed2(quantity)]
                        ELSE cart[j]]
         /\ last' = Outcome("updateCartItemQuantity", "updated", << >>, FALSE)
         /\ UNCHANGED << products, customers, categories, exchangeRate, reader,
                         dialogVars, purchaseCount >>

\* handleQuantityChange(productId, value): only a number > 0, of at most 4
\* decimals, reaches the context
handleQuantityChange(productId, quantity) ==
    /\ quantity > 0
    /\ updateCartItemQuantity(productId, quantity)

(***************************************************************************)
(* Customers                                                               *)
(***************************************************************************)
\* A Customer is [id, credit_limit, current_credit, purchase_history]; name,
\* email and phone are left out.

\* addCustomer(customer)
addCustomer(customer) ==
    LET newCustomer == [id |-> GenId(Len(customers) + 1),
                        credit_limit |-> customer.credit_limit,
                        current_credit |-> 0,
                        purchase_history |-> << >>]
    IN /\ customers' = Append(customers, newCustomer)
       /\ last' = Outcome("addCustomer", "Cliente añadido", << >>, FALSE)
       /\ UNCHANGED << products, cart, categories, exchangeRate, reader,
                       dialogVars, purchaseCount >>

\* handleAddCustomer(): a credit limit that is a number >= 0
handleAddCustomer(creditLimit) ==
    /\ Len(customers) < MaxCustomers
    /\ IF creditLimit < 0
       THEN /\ last' = Outcome("handleAddCustomer", "Límite de crédito inválido", << >>, FALSE)
            /\ UNCHANGED << products, cart, customers, categories, exchangeRate, reader,
                            dialogVars, purchaseCount >>
       ELSE addCustomer([credit_limit |-> creditLimit, current_credit |-> 0])

\* amount / exchangeRate for BS (cents * 10 / tenths of BS per USD), the
\* amount itself for USD; the amounts and rates of the specifications make
\* the quotient a whole number of cents
amountInUSD(amount, currency) ==
    IF currency = "BS" THEN (amount * 10) \div exchangeRate ELSE amount

\* faulty variant of makePaymentUpdater: an overpayment leaves the credit at 0
makePaymentUpdater_Floored(prev, customerId, amount, currency) ==
    [i \in DOMAIN prev |->
        IF prev[i].id = customerId
        THEN [prev[i] EXCEPT
                !.current_credit = Max(0, prev[i].current_credit - amountInUSD(amount, currency))]
        ELSE prev[i]]

\* the updater of setCustomers in makePayment
makePaymentUpdater(prev, customerId, amount, currency) ==
    [i \in DOMAIN prev |->
        IF prev[i].id = customerId
        THEN [prev[i] EXCEPT
                !.current_credit = prev[i].current_credit - amountInUSD(amount, currency)]
        ELSE prev[i]]

\* makePayment(customerId, amount, currency): the toast is shown inside the
\* updater, for the customer found
makePayment(customerId, amount, currency) ==
    /\ customers' = makePaymentUpdater(customers, customerId, amount, currency)
    /\ last' = IF FindIndex(customers, customerId) # 0
               THEN Outcome("makePayment", "Pago registrado", << >>, FALSE)
               ELSE Outcome("makePayment", "", << >>, FALSE)
    /\ UNCHANGED << products, cart, categories, exchangeRate, reader,
                    dialogVars, purchaseCount >>

\* handleMakePayment() of the Customers page: selectedCustomer is the
\* customer whose payment dialog is open, paymentAmount the text typed
handleMakePayment(selectedCustomer, paymentAmount, paymentCurrency) ==
    IF paymentAmount.k # "num" \/ paymentAmount.v <= 0
    THEN /\ last' = Outcome("handleMakePayment", "Monto inválido", << >>, FALSE)
         /\ UNCHANGED << products, cart, customers, categories, exchangeRate, reader,
                         dialogVars, purchaseCount >>
    ELSE makePayment(selectedCustomer.id, paymentAmount.v, paymentCurrency)

\* faulty variant of onExchangeRateSubmit: the schema lets any number through
onExchangeRateSubmit_AnyNumber(rate) ==
    IF rate.k # "num"
    THEN /\ last' = Outcome("onExchangeRateSubmit",
                            "Ingrese un número válido mayor que cero", << >>, FALSE)
         /\ UNCHANGED << products, cart, customers, categories, exchangeRate, reader,
                         dialogVars, purchaseCount >>
    ELSE /\ exchangeRate' = rate.v
         /\ last' = Outcome("onExchangeRateSubmit", "Tasa de cambio actualizada", << >>, FALSE)
         /\ UNCHANGED << products, cart, customers, categories, reader,
                         dialogVars, purchaseCount >>

\* onExchangeRateSubmit of the Administration page: the schema lets a rate
\* through that parses to a number > 0
onExchangeRateSubmit(rate) ==
    IF rate.k # "num" \/ rate.v <= 0
    THEN /\ last' = Outcome("onExchangeRateSubmit",
                            "Ingrese un número válido mayor que cero", << >>, FALSE)
         /\ UNCHANGED << products, cart, customers, categories, exchangeRate, reader,
                         dialogVars, purchaseCount >>
    ELSE /\ exchangeRate' = rate.v
         /\ last' = Outcome("onExchangeRateSubmit", "Tasa de cambio actualizada", << >>, FALSE)
         /\ UNCHANGED << products, cart, customers, categories, reader,
                         dialogVars, purchaseCount >>

(***************************************************************************)
(* Checkout                                                                *)
(***************************************************************************)
\* A Purchase is [id, total_bs, total_usd, items, payment_status,
\* payment_method, amount_paid, customer_type, customer_id]; amount_paid is
\* << >> when undefined, customer_id is NoCustomer when undefined.

\* amountPaid && amountPaid < totalUSD, for a method that is not credit
isPartialPayment(method, amount, totalUSD) ==
    /\ method # "credit"
    /\ amount # << >>
    /\ amount[1] # 0
    /\ amount[1] < totalUSD

\* faulty variant of paymentStatus: the updater never marks the record partial
paymentStatus_NeverPartial(method, amount, totalUSD, customerFound) ==
    IF method = "credit" THEN "credit" ELSE "paid"

\* payment_status of the record: credit or paid at construction, set to
\* partial by the updater of setCustomers when it meets the customer
paymentStatus(method, amount, totalUSD, customerFound) ==
    IF method = "credit" THEN "credit"
    ELSE IF customerFound /\ isPartialPayment(method, amount, totalUSD) THEN "partial"
    ELSE "paid"

\* faulty variant of newCredit: a partial payment charges the whole total
newCredit_WholeTotal(customer, method, amount, totalUSD) ==
    IF method = "credit" \/ isPartialPayment(method, amount, totalUSD)
    THEN customer.current_credit + totalUSD
    ELSE customer.current_credit

\* newCredit of the customer the purchase is attributed to
newCredit(customer, method, amount, totalUSD) ==
    IF method = "credit" THEN customer.current_credit + totalUSD
    ELSE IF isPartialPayment(method, amount, totalUSD)
         THEN customer.current_credit + (totalUSD - amount[1])
         ELSE customer.current_credit

\* faulty variant of creditLimitExceeded: the warning is shown at the limit already
creditLimitExceeded_AtLimit(customer, credit) == credit >= customer.credit_limit

\* newCredit > customer.credit_limit: the warning toast
creditLimitExceeded(customer, credit) == credit > customer.credit_limit

\* faulty variant of purchaseHistory: the purchase goes to the end
purchaseHistory_Appended(customer, purchase) ==
    customer.purchase_history \o << purchase >>

\* purchase_history: [purchase, ...customer.purchase_history]
purchaseHistory(customer, purchase) ==
    << purchase >> \o customer.purchase_history

\* the updater of setProducts in completePurchase, for one product
soldProduct(product, items) ==
    LET i == FindIndex(items, product.id) IN
    IF i # 0
    THEN [product EXCEPT
            !.stock = toFixed2(Max(0, product.stock - items[i].quantity)),
            !.sales_count = toFixed2(product.sales_count + items[i].quantity)]
    ELSE product

\* completePurchase(customerType, customerId, paymentMethod, amountPaid):
\* the values it leaves in the state, the record it creates and whether the
\* credit-limit warning is shown
completePurchase(cType, customerId, method, amount) ==
    LET totalBS == calculateSubtotalBS
        totalUSD == calculateSubtotalUSD
        customerFound == /\ customerId # NoCustomer
                         /\ \E i \in DOMAIN customers : customers[i].id = customerId
        purchase == [id |-> purchaseCount + 1,
                     total_bs |-> totalBS,
                     total_usd |-> totalUSD,
                     items |-> cart,
                     payment_status |-> paymentStatus(method, amount, totalUSD, customerFound),
                     payment_method |-> method,
                     amount_paid |-> amount,
                     customer_type |-> cType,
                     customer_id |-> customerId]
    IN IF Len(cart) = 0
       THEN [outcome |-> "Carrito vacío", customers |-> customers,
             products |-> products, cart |-> cart,
             purchase |-> << >>, warning |-> FALSE]
       ELSE [outcome |-> "Compra completada",
             customers |->
                 IF customerId # NoCustomer
                 THEN [i \in DOMAIN customers |->
                          IF customers[i].id = customerId
                          THEN [customers[i] EXCEPT
                                  !.current_credit = newCredit(customers[i], method, amount, totalUSD),
                                  !.purchase_history = purchaseHistory(customers[i], purchase)]
                          ELSE customers[i]]
                 ELSE customers,
             products |-> [i \in DOMAIN products |-> soldProduct(products[i], cart)],
             cart |-> << >>,
             purchase |-> << purchase >>,
             warning |-> /\ customerId # NoCustomer
                         /\ \E i \in DOMAIN customers :
                               /\ customers[i].id = customerId
                               /\ creditLimitExceeded(customers[i],
                                      newCredit(customers[i], method, amount, totalUSD))]

\* parseFloat(amountPaid.replace(',', '.'))
parseAmount(text) == IF text.k = "num" THEN Val(text.v) ELSE NaN

\* handleCheckout(): the dialog opens for a cart that is not empty
handleCheckout ==
    /\ page = "facturacion"
    /\ ~isCheckoutDialogOpen
    /\ purchaseCount < MaxPurchases
    /\ IF Len(cart) = 0
       THEN /\ last' = Outcome("handleCheckout", "Carrito vacío", << >>, FALSE)
            /\ UNCHANGED << products, cart, customers, categories, exchangeRate, reader,
                            dialogVars, purchaseCount >>
       ELSE /\ isCheckoutDialogOpen' = TRUE
            /\ last' = Outcome("handleCheckout", "open", << >>, FALSE)
            /\ UNCHANGED << products, cart, customers, categories, exchangeRate, reader,
                            selectedCustomerId, paymentMethod, amountPaid,
                            customerType, page, purchaseCount >>

\* the call of completePurchase in handleCompletePurchase and the reset of
\* the dialog that follows it
callCompletePurchase(amount) ==
    LET r == completePurchase(customerType, selectedCustomerId, paymentMethod, amount) IN
    /\ customers' = r.customers
    /\ products' = r.products
    /\ cart' = r.cart
    /\ purchaseCount' = purchaseCount + Len(r.purchase)
    /\ last' = Outcome("handleCompletePurchase", r.outcome, r.purchase, r.warning)
    /\ isCheckoutDialogOpen' = FALSE
    /\ selectedCustomerId' = NoCustomer
    /\ paymentMethod' = "cash"
    /\ amountPaid' = Absent
    /\ customerType' = "occasional"
    /\ UNCHANGED << categories, exchangeRate, reader, page >>

\* a refusal of handleCompletePurchase: a toast and nothing else
refuseCheckout(toast) ==
    /\ last' = Outcome("handleCompletePurchase", toast, << >>, FALSE)
    /\ UNCHANGED << products, cart, customers, categories, exchangeRate, reader,
                    dialogVars, purchaseCount >>

\* faulty variant of handleCompletePurchase: the amount typed is passed on
\* whatever the payment method
handleCompletePurchase_AmountForAnyMethod ==
    /\ page = "facturacion"
    /\ isCheckoutDialogOpen
    /\ IF paymentMethod = "credit" /\ selectedCustomerId = NoCustomer
       THEN refuseCheckout("Cliente requerido")
       ELSE IF amountPaid.k # "absent"
       THEN LET amount == parseAmount(amountPaid) IN
            IF amount.nan \/ amount.v <= 0
            THEN refuseCheckout("Monto inválido")
            ELSE IF amount.v < calculateSubtotalUSD /\ selectedCustomerId = NoCustomer
            THEN refuseCheckout("Monto insuficiente")
            ELSE callCompletePurchase(<< amount.v >>)
       ELSE callCompletePurchase(<< >>)

\* faulty variant of handleCompletePurchase: the amount is not compared with the
\* subtotal
handleCompletePurchase_NoShortfallCheck ==
    /\ page = "facturacion"
    /\ isCheckoutDialogOpen
    /\ IF paymentMethod = "credit" /\ selectedCustomerId = NoCustomer
       THEN refuseCheckout("Cliente requerido")
       ELSE IF paymentMethod = "cash" /\ amountPaid.k # "absent"
       THEN LET amount == parseAmount(amountPaid) IN
            IF amount.nan \/ amount.v <= 0
            THEN refuseCheckout("Monto inválido")
            ELSE callCompletePurchase(<< amount.v >>)
       ELSE callCompletePurchase(<< >>)

\* handleCompletePurchase()
handleCompletePurchase ==
    /\ page = "facturacion"
    /\ isCheckoutDialogOpen
    /\ IF paymentMethod = "credit" /\ selectedCustomerId = NoCustomer
       THEN refuseCheckout("Cliente requerido")
       ELSE IF paymentMethod = "cash" /\ amountPaid.k # "absent"
       THEN LET amount == parseAmount(amountPaid) IN
            IF amount.nan \/ amount.v <= 0
            THEN refuseCheckout("Monto inválido")
            ELSE IF amount.v < calculateSubtotalUSD /\ selectedCustomerId = NoCustomer
            THEN refuseCheckout("Monto insuficiente")
            ELSE callCompletePurchase(<< amount.v >>)
       ELSE callCompletePurchase(<< >>)

(***************************************************************************)
(* The checkout dialog of the Invoicing page                               *)
(***************************************************************************)
dialogStep(op) ==
    /\ page = "facturacion"
    /\ isCheckoutDialogOpen
    /\ last' = Outcome("dialog", "", << >>, FALSE)
    /\ UNCHANGED << products, cart, customers, categories, exchangeRate, reader,
                    page, purchaseCount >>

\* the two customer-type buttons
setCustomerType(type) ==
    /\ dialogStep("setCustomerType")
    /\ customerType' = type
    /\ UNCHANGED << isCheckoutDialogOpen, selectedCustomerId, paymentMethod, amountPaid >>

\* the radio group of customers, rendered for the type regular only
setSelectedCustomerId(id) ==
    /\ dialogStep("setSelectedCustomerId")
    /\ customerType = "regular"
    /\ \E i \in DOMAIN customers : customers[i].id = id
    /\ selectedCustomerId' = id
    /\ UNCHANGED << isCheckoutDialogOpen, customerType, paymentMethod, amountPaid >>

\* the payment tabs; the credit tab is disabled unless a regular customer
\* is selected
setPaymentMethod(method) ==
    /\ dialogStep("setPaymentMethod")
    /\ method = "credit" => (customerType = "regular" /\ selectedCustomerId # NoCustomer)
    /\ paymentMethod' = method
    /\ UNCHANGED << isCheckoutDialogOpen, selectedCustomerId, customerType, amountPaid >>

\* the amount input of the cash tab
setAmountPaid(text) ==
    /\ dialogStep("setAmountPaid")
    /\ paymentMethod = "cash"
    /\ amountPaid' = text
    /\ UNCHANGED << isCheckoutDialogOpen, selectedCustomerId, customerType, paymentMethod >>

\* Cancelar / onOpenChange(false): the dialog closes, its fields stay
cancelCheckout ==
    /\ dialogStep("cancelCheckout")
    /\ isCheckoutDialogOpen' = FALSE
    /\ UNCHANGED << selectedCustomerId, customerType, paymentMethod, amountPaid >>

\* a route change: the page component is mounted anew, so the local state
\* of the Invoicing page is its initial state; the context state is kept
navigate(to) ==
    /\ page # to
    /\ page' = to
    /\ isCheckoutDialogOpen' = FALSE
    /\ selectedCustomerId' = NoCustomer
    /\ paymentMethod' = "cash"
    /\ amountPaid' = Absent
    /\ customerType' = "occasional"
    /\ last' = Outcome("navigate", "", << >>, FALSE)
    /\ UNCHANGED << products, cart, customers, categories, exchangeRate, reader, purchaseCount >>

(***************************************************************************)
(* Persistence (the load effect and the save effects of BusinessProvider)  *)
(***************************************************************************)
\* A text of the storage is known by the value it denotes: k is "null"
\* (getItem finds no item), "malformed" (JSON.parse throws on it) or "json"
\* (JSON.parse gives v).  The text under business_exchange_rate is read with
\* parseFloat: Absent (no item), Text (parseFloat gives NaN) or Num(n).
NoItem == [k |-> "null", v |-> << >>]
MalformedText == [k |-> "malformed", v |-> << >>]
JSONText(v) == [k |-> "json", v |-> v]

\* JSON.stringify of a number: NaN is written as null
stringifyNumber(n) == IF n = NotANumber THEN JSONNull ELSE n
\* JSON.stringify of a Product or a CartItem
stringifyProduct(p) ==
    [f \in DOMAIN p |->
        IF f \in { "price", "cost", "profit_percentage", "profit_margin",
                   "stock", "sales_count", "quantity" }
        THEN stringifyNumber(p[f]) ELSE p[f]]
stringifyProducts(list) == [i \in DOMAIN list |-> stringifyProduct(list[i])]
\* JSON.stringify of a Purchase (amount_paid is left out when undefined)
stringifyPurchase(purchase) ==
    [purchase EXCEPT !.total_bs = stringifyNumber(@),
                     !.total_usd = stringifyNumber(@),
                     !.items = stringifyProducts(@),
                     !.amount_paid = [i \in DOMAIN @ |-> stringifyNumber(@[i])]]
\* JSON.stringify of the customers
stringifyCustomers(list) ==
    [i \in DOMAIN list |->
        [list[i] EXCEPT !.credit_limit = stringifyNumber(@),
                        !.current_credit = stringifyNumber(@),
                        !.purchase_history =
                            [j \in DOMAIN @ |-> stringifyPurchase(@[j])]]]
\* exchangeRate.toString(): NaN gives the text "NaN"
numberToString(n) == IF n = NotANumber THEN Text ELSE Num(n)
\* parseFloat of a stored text
parseFloatText(text) == IF text.k = "num" THEN text.v ELSE NotANumber

\* new Date(): a time after the times the state and the storage hold
Now ==
    LET t == Max(lastExchangeRateUpdate, storage.business_exchange_rate_update.v)
    IN IF t < MaxTime THEN t + 1 ELSE t

\* what the four save effects write for a state, the rate effect at time t
saved(p, c, rate, cats, t) ==
    [business_products |-> JSONText(stringifyProducts(p)),
     business_customers |-> JSONText(stringifyCustomers(c)),
     business_exchange_rate |-> numberToString(rate),
     business_exchange_rate_update |-> Num(t),
     business_categories |-> JSONText(cats)]

\* the save effects after a handler: each runs when its state was set
saveEffects ==
    /\ lastExchangeRateUpdate' =
          IF exchangeRate' # exchangeRate THEN Now ELSE lastExchangeRateUpdate
    /\ storage' =
        [business_products |->
            IF products' # products
            THEN JSONText(stringifyProducts(products'))
            ELSE storage.business_products,
         business_customers |->
            IF customers' # customers
            THEN JSONText(stringifyCustomers(customers'))
            ELSE storage.business_customers,
         business_exchange_rate |->
            IF exchangeRate' # exchangeRate
            THEN numberToString(exchangeRate')
            ELSE storage.business_exchange_rate,
         business_exchange_rate_update |->
            IF exchangeRate' # exchangeRate
            THEN Num(Now)
            ELSE storage.business_exchange_rate_update,
         business_categories |->
            IF categories' # categories
            THEN JSONText(categories')
            ELSE storage.business_categories]

\* what the Administration page shows once its effects have run: its
\* effect copies getProductCategories() into productCategories; on another
\* page the state does not exist (a mount starts it empty)
shown(route, cats) == IF route = "administracion" THEN cats ELSE << >>

\* the effect of the Administration page ([products, getProductCategories]):
\* it runs when the page mounts and when the provider has rendered again,
\* that is when a state of the provider was set
categoriesEffect ==
    productCategories' =
        IF page' # "administracion" THEN << >>
        ELSE IF \/ page # "administracion"
                \/ << products, cart, customers, categories, exchangeRate >>'
                      # << products, cart, customers, categories, exchangeRate >>
             THEN categories'
             ELSE productCategories

(***************************************************************************)
(* Authentication (AuthProvider, PrivateRoute)                             *)
(***************************************************************************)
\* user = null, and a User
NoUser == [k |-> "null", username |-> ""]
User(username) == [k |-> "user", username |-> username]
\* isAuthenticated: user !== null
isAuthenticated == user.k = "user"
\* the routes App wraps in PrivateRoute
ProtectedRoutes == { "administracion", "clientes" }

\* the state of PrivateRoute when it mounts on a route for a user: the
\* dialog is open when nobody is authenticated, the fields are empty (on a
\* route without PrivateRoute the state does not exist: the same, closed)
PrivateRouteMount(route, u) ==
    [isLoginDialogOpen |-> route \in ProtectedRoutes /\ u.k # "user",
     username |-> "",
     password |-> "",
     isSubmitting |-> FALSE]

\* when a handler changes the route the URL follows and the element of the
\* route mounts: between the two protected routes the PrivateRoute stays
\* where it is in the tree and keeps its state, otherwise it starts anew
\* with the user of the render.  A handler of the context or of a page sets
\* nothing of AuthProvider.
routeMount ==
    LET stays == \/ page' = page
                 \/ page \in ProtectedRoutes /\ page' \in ProtectedRoutes
    IN /\ location' = IF page' = page THEN location ELSE page'
       /\ privateRoute' = IF stays THEN privateRoute
                          ELSE PrivateRouteMount(page', user')
routeEffect ==
    /\ UNCHANGED << user, authStorage, timers >>
    /\ routeMount

\* the effects that follow a handler of the context or of a page
effects == saveEffects /\ categoriesEffect /\ routeEffect

\* handleAddCategory of the Administration page: the label typed in the
\* dialog (trimmed) is put into the local productCategories; the context is
\* not called
handleAddCategory(newCategory) ==
    /\ page = "administracion"
    /\ IF newCategory = ""
       THEN /\ last' = Outcome("handleAddCategory", "Categoría vacía", << >>, FALSE)
            /\ UNCHANGED productCategories
       ELSE IF includes(productCategories, newCategory)
       THEN /\ last' = Outcome("handleAddCategory", "Categoría duplicada", << >>, FALSE)
            /\ UNCHANGED productCategories
       ELSE /\ productCategories' = Append(productCategories, newCategory)
            /\ last' = Outcome("handleAddCategory", "Categoría añadida", << >>, FALSE)
    /\ UNCHANGED << products, cart, customers, categories, exchangeRate, reader,
                    dialogVars, purchaseCount >>

\* the load effect on a storage: the values it sets, in the order of the
\* code; JSON.parse throws on a malformed text and nothing after it runs
loaded(s) ==
    LET p == s.business_products
        c == s.business_customers
        r == s.business_exchange_rate
        g == s.business_categories
    IN [threw |-> \/ p.k = "malformed"
                  \/ c.k = "malformed"
                  \/ g.k = "malformed",
        products |-> IF p.k = "json" THEN p.v ELSE << >>,
        customers |-> IF c.k = "json" THEN c.v ELSE << >>,
        exchangeRate |-> IF r.k = "absent" THEN DefaultExchangeRate
                         ELSE parseFloatText(r),
        lastExchangeRateUpdate |-> s.business_exchange_rate_update.v,
        categories |-> IF g.k = "json" THEN g.v ELSE DefaultCategories]

\* the state of useState before the load effect has run
Unloaded ==
    /\ products = << >>
    /\ cart = << >>
    /\ customers = << >>
    /\ categories = << >>
    /\ exchangeRate = DefaultExchangeRate

\* the effect of AuthProvider ([]): the user a session stored is set; an
\* item that is no JSON is removed
authEffect ==
    /\ user' = IF authStorage.auth_user.k = "json"
               THEN authStorage.auth_user.v ELSE user
    /\ authStorage' = IF authStorage.auth_user.k = "malformed"
                      THEN [authStorage EXCEPT !.auth_user = NoItem]
                      ELSE authStorage
    /\ UNCHANGED << privateRoute, timers, location >>

\* BusinessProvider mounts and the effects of the first commit run, in the
\* order of the code: the load effect reads the storage and sets the states
\* (they are rendered by the next render); then the save effects run with
\* the states of the first render, the initial ones, and the rate effect
\* sets the time of the update to the present.  When JSON.parse throws, the
\* error leaves the load effect: no boundary catches it and React removes
\* the tree; whether the save effects of the commit still run is left to
\* React.
loadEffect ==
    /\ page = "loading"
    /\ authEffect
    /\ LET l == loaded(storage)
           written == saved(products, customers, exchangeRate, categories, Now)
       IN
       IF l.threw
       THEN /\ page' = "crashed"
            /\ \E ran \in BOOLEAN : storage' = IF ran THEN written ELSE storage
            /\ last' = Outcome("loadEffect", "SyntaxError", << >>, FALSE)
            /\ UNCHANGED << products, cart, customers, categories, exchangeRate,
                            reader, isCheckoutDialogOpen, selectedCustomerId,
                            paymentMethod, amountPaid, customerType, purchaseCount,
                            productCategories, lastExchangeRateUpdate >>
       ELSE /\ products' = l.products
            /\ customers' = l.customers
            /\ exchangeRate' = l.exchangeRate
            /\ categories' = l.categories
            /\ lastExchangeRateUpdate' = Now
            /\ storage' = written
            /\ page' = "starting"
            /\ last' = Outcome("loadEffect", "", << >>, FALSE)
            /\ UNCHANGED << cart, reader, isCheckoutDialogOpen, selectedCustomerId,
                            paymentMethod, amountPaid, customerType, purchaseCount,
                            productCategories >>

\* the render with the states the load effect set, and its effects: each
\* save effect whose state was set writes it, the rate effect (it runs when
\* the stored rate is not the initial one) takes the time again; the page of
\* the route shows
rehydrated ==
    /\ page = "starting"
    /\ LET t == IF exchangeRate # DefaultExchangeRate THEN Now
                ELSE lastExchangeRateUpdate
       IN /\ lastExchangeRateUpdate' = t
          /\ storage' = saved(products, customers, exchangeRate, categories, t)
    /\ page' = location
    /\ productCategories' = shown(location, categories)
    /\ last' = Outcome("rehydrated", "", << >>, FALSE)
    /\ UNCHANGED << user, authStorage, privateRoute, timers, location >>
    /\ UNCHANGED << products, cart, customers, categories, exchangeRate, reader,
                    isCheckoutDialogOpen, selectedCustomerId, paymentMethod,
                    amountPaid, customerType, purchaseCount >>

\* the window loads the application at a route: every state of the
\* components is new, the callbacks that waited are gone, the storage stays;
\* the first render mounts the element of the route with no user
windowLoad(route) ==
    /\ products' = << >>
    /\ cart' = << >>
    /\ customers' = << >>
    /\ categories' = << >>
    /\ exchangeRate' = DefaultExchangeRate
    /\ isCheckoutDialogOpen' = FALSE
    /\ selectedCustomerId' = NoCustomer
    /\ paymentMethod' = "cash"
    /\ amountPaid' = Absent
    /\ customerType' = "occasional"
    /\ reader' = NoReader
    /\ page' = "loading"
    /\ productCategories' = << >>
    /\ lastExchangeRateUpdate' = 0
    /\ user' = NoUser
    /\ privateRoute' = PrivateRouteMount(route, NoUser)
    /\ timers' = {}
    /\ location' = route
    /\ UNCHANGED << storage, purchaseCount >>

\* the browser loads the application again, at one of its routes
reload ==
    /\ page # "loading"
    /\ \E route \in { "facturacion", "administracion", "clientes" } :
          windowLoad(route)
    /\ last' = Outcome("reload", "", << >>, FALSE)
    /\ UNCHANGED authStorage

(***************************************************************************)
(* The login dialog of PrivateRoute, the Login page, the header            *)
(***************************************************************************)
\* PrivateRoute renders the dialog in place of the page
loginShown ==
    /\ page \in ProtectedRoutes
    /\ ~isAuthenticated
    /\ privateRoute.isLoginDialogOpen

\* onChange of the two inputs
setUsername(text) ==
    /\ loginShown
    /\ privateRoute' = [privateRoute EXCEPT !.username = text]
    /\ last' = Outcome("setUsername", "", << >>, FALSE)
    /\ UNCHANGED << businessVars, page, user, authStorage, timers, location >>
setPassword(text) ==
    /\ loginShown
    /\ privateRoute' = [privateRoute EXCEPT !.password = text]
    /\ last' = Outcome("setPassword", "", << >>, FALSE)
    /\ UNCHANGED << businessVars, page, user, authStorage, timers, location >>

\* handleLogin, the submit of the form: both inputs are required and the
\* button is disabled while isSubmitting; the callback given to setTimeout
\* holds the username and the password of this render
handleLogin ==
    /\ loginShown
    /\ ~privateRoute.isSubmitting
    /\ privateRoute.username # ""
    /\ privateRoute.password # ""
    /\ privateRoute' = [privateRoute EXCEPT !.isSubmitting = TRUE]
    /\ timers' = timers \cup { [username |-> privateRoute.username,
                                password |-> privateRoute.password] }
    /\ last' = Outcome("handleLogin", "", << >>, FALSE)
    /\ UNCHANGED << businessVars, page, user, authStorage, location >>

\* the callback of handleLogin, 500 ms later: on admin/admin it writes the
\* item isAuthenticated and reloads the window; otherwise the toast of the
\* error and the button is enabled again
handleLoginTimeout(t) ==
    /\ t \in timers
    /\ IF t.username = "admin" /\ t.password = "admin"
       THEN /\ authStorage' = [authStorage EXCEPT !.isAuthenticated = JSONText(TRUE)]
            /\ windowLoad(location)
            /\ last' = Outcome("handleLogin", "Inicio de sesión exitoso", << >>, FALSE)
       ELSE /\ privateRoute' = [privateRoute EXCEPT !.isSubmitting = FALSE]
            /\ timers' = timers \ { t }
            /\ last' = Outcome("handleLogin", "Credenciales incorrectas", << >>, FALSE)
            /\ UNCHANGED << businessVars, page, user, authStorage, location >>

\* Cancelar, and onOpenChange(false) of the dialog: window.location.href = '/'
cancelLogin ==
    /\ loginShown
    /\ windowLoad("inicio")
    /\ last' = Outcome("cancelLogin", "", << >>, FALSE)
    /\ UNCHANGED authStorage

\* navigate(to) inside a handler of the header or of the Login page: the
\* page of the route mounts
routed(to) ==
    /\ page' = to
    /\ isCheckoutDialogOpen' = FALSE
    /\ selectedCustomerId' = NoCustomer
    /\ paymentMethod' = "cash"
    /\ amountPaid' = Absent
    /\ customerType' = "occasional"
    /\ productCategories' = shown(to, categories)
    /\ routeMount
    /\ UNCHANGED << products, cart, customers, categories, exchangeRate, reader,
                    storage, lastExchangeRateUpdate, purchaseCount, timers >>

\* login of AuthProvider, called by handleSubmit of the Login page, which
\* then goes to location.state?.from?.pathname || '/' (no link sets from)
login(username, password) ==
    IF username = "admin" /\ password = "admin"
    THEN /\ user' = User(username)
         /\ authStorage' = [authStorage EXCEPT !.auth_user = JSONText(User(username))]
         /\ routed("inicio")
         /\ last' = Outcome("login", "Inicio de sesión exitoso", << >>, FALSE)
    ELSE /\ last' = Outcome("login", "Credenciales incorrectas", << >>, FALSE)
         /\ UNCHANGED << businessVars, page, user, authStorage, privateRoute,
                         timers, location >>
handleSubmit(username, password) ==
    /\ page = "login"
    /\ username # ""
    /\ password # ""
    /\ login(username, password)

\* handleLogout of the header (Salir is shown to an authenticated user):
\* logout of AuthProvider, then navigate('/')
handleLogout ==
    /\ page \notin { "loading", "starting", "crashed" }
    /\ isAuthenticated
    /\ user' = NoUser
    /\ authStorage' = [authStorage EXCEPT !.auth_user = NoItem]
    /\ routed("inicio")
    /\ last' = Outcome("logout", "Sesión cerrada", << >>, FALSE)

\* the links of the header: Inicio and Facturación always, the protected
\* routes to an authenticated user, Iniciar sesión to the others; the
\* dialog is modal, nothing behind it is clicked
linkShown(to) ==
    /\ page \notin { "loading", "starting", "crashed" }
    /\ ~loginShown
    /\ \/ to \in { "inicio", "facturacion" }
       \/ to \in ProtectedRoutes /\ isAuthenticated
       \/ to = "login" /\ ~isAuthenticated

(***************************************************************************)
(* Specifications                                                          *)
(***************************************************************************)
\* The session of a user who signed in on the Login page and came to the
\* page by the links of the header
SignedInStorage ==
    [auth_user |-> JSONText(User("admin")), isAuthenticated |-> NoItem]
SignedIn ==
    /\ user = User("admin")
    /\ authStorage = SignedInStorage
    /\ location = page
    /\ privateRoute = PrivateRouteMount(page, user)
    /\ timers = {}
\* The window of that user, opened at a route, before the effects of the
\* first commit
Opened ==
    /\ user = NoUser
    /\ authStorage = SignedInStorage
    /\ location \in { "facturacion", "administracion", "clientes" }
    /\ privateRoute = PrivateRouteMount(location, NoUser)
    /\ timers = {}

\* The state after the provider is mounted (the load effect has read the
\* storage), on the Invoicing page
Mounted(storedProducts, storedCustomers) ==
    /\ products = storedProducts
    /\ cart = << >>
    /\ customers = storedCustomers
    /\ categories = DefaultCategories
    /\ exchangeRate = DefaultExchangeRate
    /\ isCheckoutDialogOpen = FALSE
    /\ selectedCustomerId = NoCustomer
    /\ paymentMethod = "cash"
    /\ amountPaid = Absent
    /\ customerType = "occasional"
    /\ reader = NoReader
    /\ lastExchangeRateUpdate = 1
    /\ storage = saved(storedProducts, storedCustomers, DefaultExchangeRate,
                       DefaultCategories, 1)
    /\ purchaseCount = 0
    /\ last = Outcome("init", "", << >>, FALSE)

\* --- Spec: the sale flow --------------------------------------------------
\* The storage holds what an earlier session saved: one product added with
\* the form (cost 8.00, 25 %, stock 2) and two customers added with credit
\* limits 5.00 and 0.
StoredProducts ==
    << [id |-> GenId(1), name |-> "a", price |-> 1000, cost |-> 800,
        profit_percentage |-> 25, profit_margin |-> 200,
        stock |-> 2 * Unit, category |-> "BEBIDA", sales_count |-> 0] >>
StoredCustomers ==
    << [id |-> GenId(1), credit_limit |-> 500, current_credit |-> 0,
        purchase_history |-> << >>],
       [id |-> GenId(2), credit_limit |-> 0, current_credit |-> 0,
        purchase_history |-> << >>] >>

Init ==
    /\ Mounted(StoredProducts, StoredCustomers)
    /\ page = "facturacion"
    /\ productCategories = shown(page, categories)
    /\ SignedIn

\* values typed or clicked in the sale flow (quantities of 0.004 and 1)
SaleQuantities == { 40, Unit }
SaleAmounts == { Absent, Text, Num(0), Num(500) }

\* the cart handlers of the Invoicing page, unreachable behind the modal
\* dialog
\* a cart is built as long as the model lets a sale follow
Browse ==
    /\ page = "facturacion"
    /\ ~isCheckoutDialogOpen
    /\ purchaseCount < MaxPurchases
    /\ \/ \E i \in DOMAIN products, q \in SaleQuantities : handleAddToCart(products[i], q)
       \/ \E i \in DOMAIN cart : removeFromCart(cart[i].id)
       \/ \E i \in DOMAIN cart, q \in SaleQuantities : handleQuantityChange(cart[i].id, q)

Dialog ==
    \/ \E t \in CustomerTypes : setCustomerType(t)
    \/ \E i \in DOMAIN customers : setSelectedCustomerId(customers[i].id)
    \/ \E m \in PaymentMethods : setPaymentMethod(m)
    \/ \E t \in SaleAmounts : setAmountPaid(t)
    \/ cancelCheckout

Next ==
    \/ Browse /\ effects
    \/ handleCheckout /\ effects
    \/ Dialog /\ effects
    \/ handleCompletePurchase /\ effects

Spec == Init /\ [][Next]_vars

\* --- SpecStock: sales and stock edits --------------------------------------
\* The same catalog, no customer; the stock is edited on the Administration
\* page between the steps of a sale.
InitStock ==
    /\ Mounted(StoredProducts, << >>)
    /\ page = "facturacion"
    /\ productCategories = shown(page, categories)
    /\ SignedIn

StockEdits == { 0 - Unit, 0, Unit }
StockQuantities == { 0, 40, Unit, 3 * Unit }

BrowseStock ==
    /\ page = "facturacion"
    /\ ~isCheckoutDialogOpen
    /\ \/ \E i \in DOMAIN products, q \in StockQuantities : handleAddToCart(products[i], q)
       \/ \E i \in DOMAIN cart : removeFromCart(cart[i].id)
       \/ \E i \in DOMAIN cart, q \in StockQuantities : handleQuantityChange(cart[i].id, q)

EditStock ==
    /\ page = "administracion"
    /\ \E i \in DOMAIN products, s \in StockEdits : handleStockUpdate(products[i].id, s)

NextStock ==
    \/ BrowseStock /\ effects
    \/ EditStock /\ effects
    \/ handleCheckout /\ effects
    \/ handleCompletePurchase /\ effects
    \/ \E to \in { "facturacion", "administracion" } : navigate(to) /\ effects

SpecStock == InitStock /\ [][NextStock]_vars

\* --- SpecCatalog: the Administration page ---------------------------------
\* Empty storage; products come from the form and from imported files.
InitCatalog ==
    /\ Mounted(<< >>, << >>)
    /\ page = "administracion"
    /\ productCategories = shown(page, categories)
    /\ SignedIn

Item(name, price, stock) ==
    [name |-> name, price |-> price, stock |-> stock, id |-> 0, category |-> "",
     cost |-> Absent]

\* the records files are made of: names that differ in case only, a
\* negative stock, a missing name, a price that is no number, no price
ImportItems ==
    { Item("a", Num(1000), Num(2 * Unit)),
      Item("A", Num(1000), Num(0 - Unit)),
      Item("b", Num(250), Absent),
      Item("", Num(1000), Absent),
      Item("b", Text, Num(2 * Unit)),
      Item("b", Absent, Num(Unit)) }

Batches == UNION { [1..n -> ImportItems] : n \in 0..MaxBatch }

FormNames == { "a", "b" }
FormStocks == { 0 - Unit, 2 * Unit }

AddProductForm ==
    /\ page = "administracion"
    /\ \E n \in FormNames, s \in FormStocks : onNewProductSubmit(n, 800, 25, s, "BEBIDA")

\* what an import would add to the catalog as it is
ImportSize(productsArray) ==
    Len(uniqueNewProducts(products, importNewProducts(productsArray, 0)))

\* a file is chosen; the catalog of the model holds at most MaxProducts
\* products
Import ==
    /\ page = "administracion"
    /\ reader = NoReader
    /\ \E b \in Batches :
        /\ Len(products) + ImportSize(b) <= MaxProducts
        /\ uploadProductsFromJSON(JSONFile(b))

ImportDone ==
    /\ reader # NoReader
    /\ Len(products) + ImportSize(reader[1].productsArray) <= MaxProducts
    /\ readerOnload

\* a file is chosen whose text is no JSON
ImportUnparseable ==
    /\ page = "administracion"
    /\ uploadProductsFromJSON(UnparseableFile)

ImportFailed == readerOnerror

NextCatalog ==
    \/ AddProductForm /\ effects
    \/ Import /\ effects
    \/ ImportUnparseable /\ effects
    \/ ImportDone /\ effects
    \/ ImportFailed /\ effects

SpecCatalog == InitCatalog /\ [][NextCatalog]_vars

\* --- SpecLedger: payments -------------------------------------------------
\* The storage holds the ledger a sale on credit of 10.00 left: customer 1
\* owes 10.00 and has the purchase in the history.
\* (the purchase has the id 0, an id of the earlier session)
StoredPurchase ==
    [id |-> GenId(0), total_bs |-> 35500, total_usd |-> 1000,
     items |-> << CartItem(StoredProducts[1], Unit) >>,
     payment_status |-> "credit", payment_method |-> "credit",
     amount_paid |-> << >>, customer_type |-> "regular", customer_id |-> GenId(1)]
StoredLedger ==
    << [id |-> GenId(1), credit_limit |-> 500, current_credit |-> 1000,
        purchase_history |-> << StoredPurchase >>] >>
\* the catalog that sale left
SoldProducts == << soldProduct(StoredProducts[1], StoredPurchase.items) >>

InitLedger ==
    /\ Mounted(SoldProducts, StoredLedger)
    /\ page = "clientes"
    /\ productCategories = shown(page, categories)
    /\ SignedIn

\* payments are made to a customer whose credit in favor is below this
MaxCreditInFavor == 2000

PaymentAmounts == { Text, Num(0), Num(500), Num(35500), Num(71000) }
Currencies == { "USD", "BS" }
Rates == { Text, Num(0), Num(355), Num(710) }
CreditLimits == { 0 - 100, 500 }

AddCustomerForm ==
    /\ page = "clientes"
    /\ \E l \in CreditLimits : handleAddCustomer(l)

\* the payment dialog of a customer of the list
PaymentForm ==
    /\ page = "clientes"
    /\ \E i \in DOMAIN customers, a \in PaymentAmounts, c \in Currencies :
          /\ customers[i].current_credit > 0 - MaxCreditInFavor
          /\ (c = "USD" => a.v <= 500)
          /\ (c = "BS" /\ a.k = "num" => (a.v * 10) % exchangeRate = 0)
          /\ handleMakePayment(customers[i], a, c)

\* makePayment called with an id, of the ledger or not
PaymentCall ==
    \E id \in 1..(MaxCustomers + 1), a \in { 500 }, c \in Currencies :
        /\ \A i \in DOMAIN customers :
              customers[i].current_credit > 0 - MaxCreditInFavor
        /\ (c = "BS" => (a * 10) % exchangeRate = 0)
        /\ makePayment(GenId(id), a, c)

RateForm ==
    /\ page = "administracion"
    /\ \E r \in Rates : onExchangeRateSubmit(r)

NextLedger ==
    \/ AddCustomerForm /\ effects
    \/ PaymentForm /\ effects
    \/ PaymentCall /\ effects
    \/ RateForm /\ effects
    \/ \E to \in { "clientes", "administracion" } : navigate(to) /\ effects

SpecLedger == InitLedger /\ [][NextLedger]_vars

\* --- SpecHistory: a sale to a customer who has bought before ---------------
\* The sale flow of Spec on that catalog and ledger, with the second
\* customer of Spec.
InitHistory ==
    /\ Mounted(SoldProducts, << StoredLedger[1], StoredCustomers[2] >>)
    /\ page = "facturacion"
    /\ productCategories = shown(page, categories)
    /\ SignedIn

SpecHistory == InitHistory /\ [][Next]_vars

\* --- SpecPersist: start, work, start again -------------------------------
\* The application starts on a storage an earlier session or another
\* program left: under each key no item, a text that is no JSON, or a value.
StoredTexts(v) == { NoItem, MalformedText, JSONText(v) }
StoredRates == { Absent, Text, Num(710) }

InitPersist ==
    /\ Unloaded
    /\ isCheckoutDialogOpen = FALSE
    /\ selectedCustomerId = NoCustomer
    /\ paymentMethod = "cash"
    /\ amountPaid = Absent
    /\ customerType = "occasional"
    /\ reader = NoReader
    /\ purchaseCount = 0
    /\ last = Outcome("init", "", << >>, FALSE)
    /\ page = "loading"
    /\ productCategories = shown(page, categories)
    /\ Opened
    /\ lastExchangeRateUpdate = 0
    /\ storage \in [business_products : StoredTexts(StoredProducts),
                     business_customers : StoredTexts(StoredLedger),
                     business_exchange_rate : StoredRates,
                     business_exchange_rate_update : { Absent, Num(1) },
                     business_categories : StoredTexts(<< "BEBIDA" >>)]

\* the records of the imported files: a stock that is a number, a stock
\* that is a text
PersistItems ==
    { Item("b", Num(250), Num(Unit)),
      Item("b", Num(250), Text) }

ImportStock ==
    /\ page = "administracion"
    /\ reader = NoReader
    /\ \E item \in PersistItems :
          /\ Len(products) + ImportSize(<< item >>) <= MaxProducts
          /\ uploadProductsFromJSON(JSONFile(<< item >>))

NextPersist ==
    \/ loadEffect
    \/ rehydrated
    \/ reload
    \/ ImportStock /\ effects
    \/ ImportDone /\ effects
    \/ AddCustomerForm /\ effects
    \/ RateForm /\ effects
    \/ /\ page \in { "facturacion", "administracion", "clientes" }
       /\ \E to \in { "administracion", "clientes" } : navigate(to)
       /\ effects

SpecPersist == InitPersist /\ [][NextPersist]_vars

\* --- SpecSubtotal: the totals of a cart -----------------------------------
\* Two products (10.00 and 3.34, stock 5 each), a rate of 35.5 or 71; carts
\* are built with quantities of 0.3333, 1 and 3.
SubtotalProducts ==
    << [id |-> GenId(1), name |-> "a", price |-> 1000, cost |-> 800,
        profit_percentage |-> 25, profit_margin |-> 200,
        stock |-> 5 * Unit, category |-> "BEBIDA", sales_count |-> 0],
       [id |-> GenId(2), name |-> "b", price |-> 334, cost |-> 0,
        profit_percentage |-> 0, profit_margin |-> 334,
        stock |-> 5 * Unit, category |-> "BEBIDA", sales_count |-> 0] >>
SubtotalRates == { 355, 710 }
SubtotalQuantities == { 3333, Unit, 3 * Unit }

InitSubtotal ==
    /\ products = SubtotalProducts
    /\ cart = << >>
    /\ customers = << >>
    /\ categories = DefaultCategories
    /\ exchangeRate \in SubtotalRates
    /\ isCheckoutDialogOpen = FALSE
    /\ selectedCustomerId = NoCustomer
    /\ paymentMethod = "cash"
    /\ amountPaid = Absent
    /\ customerType = "occasional"
    /\ reader = NoReader
    /\ lastExchangeRateUpdate = 1
    /\ storage = saved(products, customers, exchangeRate, categories, 1)
    /\ purchaseCount = 0
    /\ last = Outcome("init", "", << >>, FALSE)
    /\ page = "facturacion"
    /\ productCategories = shown(page, categories)
    /\ SignedIn

AddLine ==
    \E i \in DOMAIN products, q \in SubtotalQuantities : handleAddToCart(products[i], q)
RemoveLine ==
    \E i \in DOMAIN cart : removeFromCart(cart[i].id)
ChangeLine ==
    \E i \in DOMAIN cart, q \in SubtotalQuantities : handleQuantityChange(cart[i].id, q)

NextSubtotal ==
    \/ AddLine /\ effects
    \/ RemoveLine /\ effects
    \/ ChangeLine /\ effects

SpecSubtotal == InitSubtotal /\ [][NextSubtotal]_vars

\* --- SpecProfit: the profit fields of the catalog -------------------------
\* Empty storage; products come from the form (cost 0 or 8.00, 25 % or 30 %)
\* and from files whose records carry a cost or none.
ProfitCosts == { 0, 800 }
ProfitPercentages == { 25, 30 }
ProfitItems ==
    { [Item("a", Num(1000), Num(Unit)) EXCEPT !.cost = Num(800)],
      [Item("b", Num(1200), Num(Unit)) EXCEPT !.cost = Num(800)],
      Item("b", Num(250), Num(Unit)) }

AddProfitForm ==
    /\ page = "administracion"
    /\ \E n \in FormNames, c \in ProfitCosts, pp \in ProfitPercentages :
          onNewProductSubmit(n, c, pp, 2 * Unit, "BEBIDA")

ImportProfit ==
    /\ page = "administracion"
    /\ reader = NoReader
    /\ \E item \in ProfitItems :
          /\ Len(products) + ImportSize(<< item >>) <= MaxProducts
          /\ uploadProductsFromJSON(JSONFile(<< item >>))

NextProfit ==
    \/ AddProfitForm /\ effects
    \/ ImportProfit /\ effects
    \/ ImportDone /\ effects

SpecProfit == InitCatalog /\ [][NextProfit]_vars

\* --- SpecIds: the ids of the catalog ---------------------------------------
\* Empty storage; products come from the form and from files whose records
\* carry an id of their own or none.
IdItems ==
    { Item("a", Num(1000), Num(Unit)),
      [Item("a", Num(1000), Num(Unit)) EXCEPT !.id = 101],
      [Item("b", Num(250), Num(Unit)) EXCEPT !.id = 101],
      [Item("b", Num(250), Num(Unit)) EXCEPT !.id = 102] }
IdFiles == UNION { [1..n -> IdItems] : n \in 1..2 }

ImportIds ==
    /\ page = "administracion"
    /\ reader = NoReader
    /\ \E b \in IdFiles :
          /\ Len(products) + ImportSize(b) <= MaxProducts
          /\ uploadProductsFromJSON(JSONFile(b))

NextIds ==
    \/ AddProductForm /\ effects
    \/ ImportIds /\ effects
    \/ ImportDone /\ effects

SpecIds == InitCatalog /\ [][NextIds]_vars

\* --- SpecCategories: the category labels -----------------------------------
\* Empty storage; labels come from the add-category dialog of the
\* Administration page, from addCategory of the context, from products added
\* with the form and from imported files.
DialogLabels == { "", "BEBIDA", "SNACKS" }
CallLabels == { "", "bebida", "HOGAR" }
FormLabels == { "BEBIDA", "DULCES" }
CategoryItems ==
    { Item("a", Num(1000), Num(Unit)),
      [Item("b", Num(250), Num(Unit)) EXCEPT !.category = "bebida"],
      [Item("b", Num(250), Num(Unit)) EXCEPT !.category = "HOGAR"],
      [Item("b", Num(250), Num(Unit)) EXCEPT !.category = "DULCES"] }

AddCategoryDialog ==
    \E c \in DialogLabels : handleAddCategory(c)

AddCategoryCall ==
    \E c \in CallLabels : addCategory(c)

AddCategoryProduct ==
    /\ page = "administracion"
    /\ \E n \in FormNames, c \in FormLabels : onNewProductSubmit(n, 800, 25, 2 * Unit, c)

ImportCategories ==
    /\ page = "administracion"
    /\ reader = NoReader
    /\ \E item \in CategoryItems :
          /\ Len(products) + ImportSize(<< item >>) <= MaxProducts
          /\ uploadProductsFromJSON(JSONFile(<< item >>))

NextCategories ==
    \/ AddCategoryDialog /\ saveEffects /\ routeEffect
    \/ AddCategoryCall /\ effects
    \/ AddCategoryProduct /\ effects
    \/ ImportCategories /\ effects
    \/ ImportDone /\ effects
    \/ \E to \in { "facturacion", "administracion" } : navigate(to) /\ effects

SpecCategories == InitCatalog /\ [][NextCategories]_vars

\* --- SpecRate: the exchange rate over sessions ----------------------------
\* The application starts on the storage of a first run (no item) or on the
\* one an earlier session of the application wrote; the rate is set on the
\* Administration page and the application is started again.
FirstRun ==
    [business_products |-> NoItem,
     business_customers |-> NoItem,
     business_exchange_rate |-> Absent,
     business_exchange_rate_update |-> Absent,
     business_categories |-> NoItem]
\* the catalogs and ledgers of the earlier session: nothing, a product, a
\* product sold on credit
SessionData ==
    { << << >>, << >> >>,
      << StoredProducts, << >> >>,
      << SoldProducts, StoredLedger >> }
SessionStorages ==
    { FirstRun }
    \cup { saved(d[1], d[2], r, DefaultCategories, 1) :
              d \in SessionData, r \in { DefaultExchangeRate, 710 } }
RateTexts == { Absent, Text, Num(0 - 355), Num(0), Num(10), Num(710), Num(1000) }

InitRate ==
    /\ Unloaded
    /\ isCheckoutDialogOpen = FALSE
    /\ selectedCustomerId = NoCustomer
    /\ paymentMethod = "cash"
    /\ amountPaid = Absent
    /\ customerType = "occasional"
    /\ reader = NoReader
    /\ purchaseCount = 0
    /\ last = Outcome("init", "", << >>, FALSE)
    /\ page = "loading"
    /\ productCategories = shown(page, categories)
    /\ Opened
    /\ lastExchangeRateUpdate = 0
    /\ storage \in SessionStorages

SetRate ==
    /\ page = "administracion"
    /\ \E r \in RateTexts : onExchangeRateSubmit(r)

NextRate ==
    \/ loadEffect
    \/ rehydrated
    \/ reload
    \/ SetRate /\ effects
    \/ /\ page \in { "facturacion", "administracion", "clientes" }
       /\ \E to \in { "facturacion", "administracion" } : navigate(to)
       /\ effects

SpecRate == InitRate /\ [][NextRate]_vars

\* --- SpecAuth: the protected routes ---------------------------------------
\* A first run (no item in the storage): the window is opened at a protected
\* route; the user types into the login dialog, submits it, cancels it,
\* signs in on the Login page, signs out, follows the links of the header.
Usernames == { "admin", "user" }
Passwords == { "admin", "1234" }

InitAuth ==
    /\ Unloaded
    /\ isCheckoutDialogOpen = FALSE
    /\ selectedCustomerId = NoCustomer
    /\ paymentMethod = "cash"
    /\ amountPaid = Absent
    /\ customerType = "occasional"
    /\ reader = NoReader
    /\ purchaseCount = 0
    /\ last = Outcome("init", "", << >>, FALSE)
    /\ page = "loading"
    /\ productCategories = shown(page, categories)
    /\ lastExchangeRateUpdate = 0
    /\ storage = FirstRun
    /\ user = NoUser
    /\ authStorage = [auth_user |-> NoItem, isAuthenticated |-> NoItem]
    /\ location \in ProtectedRoutes
    /\ privateRoute = PrivateRouteMount(location, NoUser)
    /\ timers = {}

TypeUsername == \E text \in Usernames : setUsername(text)
TypePassword == \E text \in Passwords : setPassword(text)
Timeout == \E t \in timers : handleLoginTimeout(t)
SubmitLoginPage ==
    \E username \in Usernames, password \in Passwords :
        handleSubmit(username, password)
FollowLink ==
    \E to \in { "inicio", "login", "administracion" } :
        linkShown(to) /\ navigate(to) /\ effects

NextAuth ==
    \/ loadEffect
    \/ rehydrated
    \/ TypeUsername
    \/ TypePassword
    \/ handleLogin
    \/ Timeout
    \/ cancelLogin
    \/ SubmitLoginPage
    \/ handleLogout
    \/ FollowLink

SpecAuth == InitAuth /\ [][NextAuth]_vars

\* The effects of a commit run once the commit is done and the callback of
\* setTimeout runs once its 500 ms have passed: none of them waits for the
\* user.
SpecAuthLive ==
    /\ SpecAuth
    /\ WF_vars(loadEffect)
    /\ WF_vars(rehydrated)
    /\ WF_vars(Timeout)

(***************************************************************************)
(* Properties                                                              *)
(***************************************************************************)
\* every Purchase record the state holds: the one the last checkout created
\* and those of the purchase histories
AllPurchases ==
    Range(last.purchase)
        \cup UNION { Range(customers[i].purchase_history) : i \in DOMAIN customers }

\* the index of the customer with this id, 0 when there is none
CustomerIndex(id) == FindIndex(customers, id)

\* a step of handleCompletePurchase that ran the checkout to its end
CompletedCheckout ==
    /\ handleCompletePurchase
    /\ last'.outcome = "Compra completada"

\* the preconditions of a checkout, read on the dialog as it is submitted
EmptyCart == Len(cart) = 0
CustomerRequired == paymentMethod = "credit" /\ selectedCustomerId = NoCustomer
InvalidAmount ==
    /\ paymentMethod = "cash"
    /\ amountPaid.k # "absent"
    /\ (amountPaid.k = "text" \/ amountPaid.v <= 0)
InsufficientPayment ==
    /\ paymentMethod = "cash"
    /\ amountPaid.k = "num"
    /\ amountPaid.v < SumUSD(cart)
    /\ selectedCustomerId = NoCustomer
PreconditionFails ==
    EmptyCart \/ CustomerRequired \/ InvalidAmount \/ InsufficientPayment

\* a checkout attempt: the button of the cart panel on an empty cart, or
\* the button of the dialog
CheckoutAttempt ==
    \/ handleCheckout /\ EmptyCart
    \/ handleCompletePurchase

\* C1: a checkout attempt that fails a precondition (empty cart, credit
\* without a customer, a cash amount that is no positive number, a cash
\* amount below the subtotal without a customer) leaves cart, products and
\* customers as they were and produces no Purchase record.
C1_FailedCheckoutChangesNothing ==
    [][ (CheckoutAttempt /\ PreconditionFails)
            => /\ cart' = cart
               /\ products' = products
               /\ customers' = customers
               /\ purchaseCount' = purchaseCount
               /\ last'.purchase = << >> ]_vars

\* C1 witness: a cash amount below the subtotal was refused for want of a
\* customer, the cart still holding its lines
C1_Witness ==
    /\ last.op = "handleCompletePurchase"
    /\ last.outcome = "Monto insuficiente"
    /\ Len(cart) > 0
    /\ isCheckoutDialogOpen

\* the status the three fields of a Purchase record call for
C2_StatusRule(p) ==
    p.payment_status =
        IF p.payment_method = "credit" THEN "credit"
        ELSE IF p.amount_paid # << >> /\ p.amount_paid[1] < p.total_usd THEN "partial"
        ELSE "paid"

\* C2: the payment_status of every Purchase is credit for the method
\* credit, partial for another method with an amount_paid below total_usd,
\* and paid in every other case.
C2_PaymentStatusDerived == \A p \in AllPurchases : C2_StatusRule(p)

\* C2 witness: a purchase of status partial is in a history
C2_Witness ==
    \E i \in DOMAIN customers :
        \E p \in Range(customers[i].purchase_history) :
            /\ p.payment_status = "partial"
            /\ p.amount_paid # << >>
            /\ p.amount_paid[1] < p.total_usd

\* the amount a Purchase record leaves unpaid
C3_Increase(p) ==
    IF p.payment_method = "credit" THEN p.total_usd
    ELSE IF p.amount_paid # << >> /\ p.amount_paid[1] < p.total_usd
         THEN p.total_usd - p.amount_paid[1]
         ELSE 0

\* C3: a completed checkout of total T attributed to customer c raises
\* c.current_credit by T for the method credit, by T - amountPaid for
\* another method with an amount below T, by 0 otherwise; the credit of every
\* other customer is unchanged.
C3_CreditAccounting ==
    [][ CompletedCheckout
            => /\ Len(last'.purchase) = 1
               /\ last'.purchase[1].total_usd = SumUSD(cart)
               /\ last'.purchase[1].customer_id = selectedCustomerId
               /\ DOMAIN customers' = DOMAIN customers
               /\ \A i \in DOMAIN customers :
                     customers'[i].current_credit =
                         customers[i].current_credit
                           + (IF customers[i].id = selectedCustomerId
                              THEN C3_Increase(last'.purchase[1])
                              ELSE 0) ]_vars

\* C3 witness: a cash sale paid in part has left the difference, and only
\* the difference, on the customer's credit
C3_Witness ==
    /\ last.op = "handleCompletePurchase"
    /\ Len(last.purchase) = 1
    /\ last.purchase[1].payment_method = "cash"
    /\ last.purchase[1].amount_paid = << 500 >>
    /\ last.purchase[1].total_usd = 1000
    /\ \E i \in DOMAIN customers :
          /\ customers[i].id = last.purchase[1].customer_id
          /\ customers[i].current_credit = 500

\* the customer of the sale ends above the credit limit
C7_ExceedsLimit ==
    \E i \in DOMAIN customers' :
        /\ customers'[i].id = selectedCustomerId
        /\ customers'[i].current_credit > customers'[i].credit_limit

C6_CheckoutDecrementsExactly ==
    [][ CompletedCheckout
            => /\ cart' = << >>
               /\ DOMAIN products' = DOMAIN products
               /\ \A i \in DOMAIN products :
                     LET j == FindIndex(cart, products[i].id) IN
                     products'[i] =
                         IF j # 0
                         THEN [products[i] EXCEPT
                                 !.stock = Max(0, products[i].stock - cart[j].quantity),
                                 !.sales_count = products[i].sales_count + cart[j].quantity]
                         ELSE products[i] ]_vars

\* every product has one cart line at most
C8_NoDuplicateLines ==
    \A i, j \in DOMAIN cart : cart[i].id = cart[j].id => i = j

\* C8: no two cart lines have the same product id, and adding q to a cart
\* that holds a line of quantity q1 > 0 for the product, q1 + q <= stock,
\* leaves that one line with quantity q1 + q.
C8_MergeAddsQuantities ==
    /\ []C8_NoDuplicateLines
    /\ [][ \A i \in DOMAIN products, q \in SaleQuantities, j \in DOMAIN cart :
             ( /\ handleAddToCart(products[i], q)
               /\ q > 0
               /\ cart[j].id = products[i].id
               /\ cart[j].quantity > 0
               /\ cart[j].quantity + q <= products[i].stock )
             => /\ Len(cart') = Len(cart)
                /\ cart'[j].id = products[i].id
                /\ cart'[j].quantity = cart[j].quantity + q ]_vars

\* C5: in every state the quantity of each cart line is at most the stock
\* the catalog holds for its product.
C5_CartWithinStock ==
    \A j \in DOMAIN cart :
        LET k == FindIndex(products, cart[j].id) IN
        k # 0 => cart[j].quantity <= products[k].stock

\* C4: in every state the stock of every product is >= 0.
C4_StockNonNegative ==
    \A i \in DOMAIN products : products[i].stock >= 0

\* two names that differ in case at most
SameName(x, y) == toLowerCase(x) = toLowerCase(y)

\* a record of a file that yields a name and a numeric price
C9_Usable(item) == item.name # "" /\ item.price.k # "text"

\* the usable records of the batch whose name no product of the catalog has
C9_NewRecords(b) ==
    { k \in DOMAIN b :
        /\ C9_Usable(b[k])
        /\ \A i \in DOMAIN products : ~SameName(products[i].name, b[k].name) }

\* C9: an import of N (usable) records whose names are new and M records
\* whose names match a product of the catalog, case ignored, adds exactly N
\* products and leaves every product that existed unchanged.
C9_ImportAddsNewNames ==
    [][ readerOnload
          => LET b == reader[1].productsArray IN
             /\ Len(products') = Len(products) + Cardinality(C9_NewRecords(b))
             /\ SubSeq(products', 1, Len(products)) = products
             /\ last'.n = IF last'.outcome = "productos importados"
                          THEN Cardinality(C9_NewRecords(b)) ELSE 0 ]_vars

\* C9 witness: an import into a catalog that held the product "a" of the
\* form has added one product, "b", and left "a" as it was
C9_Witness ==
    /\ last.op = "uploadProductsFromJSON"
    /\ last.outcome = "productos importados"
    /\ last.n = 1
    /\ Len(products) = 2
    /\ products[1].name = "a" /\ products[1].cost = 800
    /\ products[2].name = "b" /\ products[2].cost = 0

\* no two products of the catalog have the same name, case ignored
NamesUnique(list) ==
    \A i, j \in DOMAIN list : SameName(list[i].name, list[j].name) => i = j

\* C10: an import into a catalog whose names are unique, case ignored,
\* leaves a catalog whose names are unique, whatever the batch.
C10_ImportKeepsNamesUnique ==
    [][ readerOnload
          => (NamesUnique(products) => NamesUnique(products')) ]_vars

\* the records of the batch that carry a name and a numeric price
C11_Valid(item) == item.name # "" /\ item.price.k = "num"

\* C11: an import adds a product only for a record with a non-empty name
\* and a numeric price: every product added has the name and the price of
\* such a record of the file (a record with no name, no price field or a
\* price that is no number adds nothing).
C11_ImportAcceptsValidOnly ==
    [][ readerOnload
          => LET b == reader[1].productsArray IN
             \A i \in DOMAIN products' :
                i > Len(products) =>
                   \E k \in DOMAIN b :
                      /\ C11_Valid(b[k])
                      /\ b[k].name = products'[i].name
                      /\ b[k].price.v = products'[i].price ]_vars

\* an import that fails: the text is no JSON, the array is empty, or no
\* record has a name and a price that parses
C12_Fails(file) ==
    \/ ~file.parses
    \/ Len(file.productsArray) = 0
    \/ \A k \in DOMAIN file.productsArray : ~itemAccepted(file.productsArray[k])

\* C12: an import that fails (read error, text that is no JSON, empty
\* array, no valid record) leaves products and categories as they were, and
\* so does the step that starts the read: nothing changes before
\* reader.onload has the whole file.
C12_FailedImportChangesNothing ==
    [][ /\ (readerOnerror \/ (readerOnload /\ C12_Fails(reader[1])))
            => (products' = products /\ categories' = categories)
        /\ (reader = NoReader /\ reader' # NoReader)
            => (products' = products /\ categories' = categories) ]_vars

\* C12 witness: a file without a valid record was refused, the catalog
\* holding a product and the categories being the default ones
C12_Witness ==
    /\ last.op = "uploadProductsFromJSON"
    /\ last.outcome = "No se encontraron productos válidos"
    /\ Len(products) > 0
    /\ categories = DefaultCategories

\* the ids and amounts makePayment is called with
C15_Ids == { GenId(n) : n \in 1..(MaxCustomers + 1) }
C15_Amounts == { 500, 35500, 71000 }

\* C15: makePayment(c, amount, currency) lowers c.current_credit by amount
\* for USD and by amount / exchangeRate for BS, below zero when the payment
\* is larger than the debt, and changes no other customer and no purchase
\* history.
C15_PaymentLowersCredit ==
    [][ \A id \in C15_Ids, a \in C15_Amounts, c \in Currencies :
          makePayment(id, a, c)
            => /\ DOMAIN customers' = DOMAIN customers
               /\ \A i \in DOMAIN customers :
                     /\ customers'[i].purchase_history = customers[i].purchase_history
                     /\ customers'[i].credit_limit = customers[i].credit_limit
                     /\ customers'[i].id = customers[i].id
                     /\ LET paid == customers[i].current_credit - customers'[i].current_credit
                        IN IF customers[i].id # id THEN paid = 0
                           ELSE IF c = "USD" THEN paid = a
                           ELSE paid * exchangeRate = a * 10 ]_vars

\* C15 witness: a payment in BS larger than the debt has left a credit in
\* favor, the history still holding the purchase
C15_Witness ==
    /\ last.op = "makePayment"
    /\ last.outcome = "Pago registrado"
    /\ exchangeRate = 355
    /\ customers[1].current_credit = 0 - 1000
    /\ customers[1].purchase_history = << StoredPurchase >>

\* C16: makePayment with an id that no customer of the ledger has signals
\* an error and leaves every customer unchanged.
C16_UnknownCustomerFails ==
    [][ \A id \in C15_Ids, a \in C15_Amounts, c \in Currencies :
          (makePayment(id, a, c) /\ FindIndex(customers, id) = 0)
            => /\ last'.outcome # ""
               /\ customers' = customers ]_vars

\* h is what is left of g when entries are taken from its head
C17_Suffix(h, g) ==
    /\ Len(h) <= Len(g)
    /\ SubSeq(g, Len(g) - Len(h) + 1, Len(g)) = h

\* C17: a completed checkout with a customer id puts the one new Purchase at
\* the head of that customer's purchase_history and leaves the history of
\* every other customer as it was (a checkout without a customer id changes
\* none); no step ever removes or reorders the entries a history holds.
C17_HistoryPrepends ==
    [][ /\ CompletedCheckout
            => /\ Len(last'.purchase) = 1
               /\ \A i \in DOMAIN customers :
                     customers'[i].purchase_history =
                         IF customers[i].id = selectedCustomerId
                         THEN << last'.purchase[1] >> \o customers[i].purchase_history
                         ELSE customers[i].purchase_history
        /\ \A i \in DOMAIN customers :
              /\ i \in DOMAIN customers'
              /\ C17_Suffix(customers[i].purchase_history,
                            customers'[i].purchase_history) ]_vars

\* C17 witness: the customer who had bought before has the new purchase
\* first and the earlier one second; the other customer has none
C17_Witness ==
    /\ last.op = "handleCompletePurchase"
    /\ Len(last.purchase) = 1
    /\ customers[1].purchase_history = << last.purchase[1], StoredPurchase >>
    /\ customers[2].purchase_history = << >>

\* the quantities updateCartItemQuantity is called with
C18_Quantities == { 0, 40, Unit, 3 * Unit }

\* C18: updateCartItemQuantity(p, q) removes the line of p as
\* removeFromCart(p) does when q <= 0, leaves the cart as it is when q is
\* above the stock of p, and otherwise makes q the quantity of the line of p,
\* the other lines unchanged.
C18_UpdateSetsQuantity ==
    [][ \A i \in DOMAIN products, q \in C18_Quantities :
          updateCartItemQuantity(products[i].id, q)
            => cart' =
                 IF q <= 0 THEN removeFromCartUpdater(cart, products[i].id)
                 ELSE IF q > products[i].stock THEN cart
                 ELSE [j \in DOMAIN cart |->
                         IF cart[j].id = products[i].id
                         THEN [cart[j] EXCEPT !.quantity = q]
                         ELSE cart[j]] ]_vars

\* C19: a checkout by pos or biopayment completes with a Purchase of status
\* paid and leaves the current_credit of every customer unchanged.
C19_CardMethodsArePaid ==
    [][ (handleCompletePurchase /\ paymentMethod \in { "pos", "biopayment" })
            => /\ last'.outcome = "Compra completada"
               /\ Len(last'.purchase) = 1
               /\ last'.purchase[1].payment_method = paymentMethod
               /\ last'.purchase[1].payment_status = "paid"
               /\ DOMAIN customers' = DOMAIN customers
               /\ \A i \in DOMAIN customers :
                     customers'[i].current_credit = customers[i].current_credit ]_vars

\* C19 witness: a sale by pos to a customer of the ledger is paid and has
\* left the customer without credit
C19_Witness ==
    /\ last.op = "handleCompletePurchase"
    /\ Len(last.purchase) = 1
    /\ last.purchase[1].payment_method = "pos"
    /\ last.purchase[1].payment_status = "paid"
    /\ last.purchase[1].total_usd = 1000
    /\ last.purchase[1].customer_id = customers[1].id
    /\ customers[1].current_credit = 0
    /\ customers[1].purchase_history = last.purchase

\* C20: no Purchase of customer_type occasional carries a customer id, and a
\* checkout made for an occasional customer changes no customer.
C20_OccasionalNotLinked ==
    /\ [](\A p \in AllPurchases :
             p.customer_type = "occasional" => p.customer_id = NoCustomer)
    /\ [][ (CompletedCheckout /\ customerType = "occasional")
              => customers' = customers ]_vars

\* C13: at start, a text that is no JSON under a key lets the application
\* start: the aggregate of that key (products, customers, categories) is
\* empty or the default, and the other aggregates hold what their keys store.
C13_StartupSurvivesMalformed ==
    [][ loadEffect
          => /\ page' # "crashed"
             /\ products' = IF storage.business_products.k = "json"
                            THEN storage.business_products.v ELSE << >>
             /\ customers' = IF storage.business_customers.k = "json"
                             THEN storage.business_customers.v ELSE << >>
             /\ IF storage.business_categories.k = "json"
                THEN categories' = storage.business_categories.v
                ELSE categories' \in { << >>, DefaultCategories }
             /\ exchangeRate' = loaded(storage).exchangeRate ]_vars

\* what a start would read from the storage is what the memory holds
C14_Mirrors ==
    LET l == loaded(storage) IN
    /\ ~l.threw
    /\ l.products = products
    /\ l.customers = customers
    /\ l.exchangeRate = exchangeRate
    /\ l.categories = categories

\* C14: once the application has started and the save effects of a handler
\* have run, the storage holds the products, customers, exchange rate and
\* categories of the memory, and a start on it gives exactly these values.
C14_RoundTrip ==
    /\ []((page \notin { "loading", "starting", "crashed" }) => C14_Mirrors)
    /\ [][ (page \notin { "loading", "starting", "crashed" } /\ reload)
              => /\ ~loaded(storage').threw
                 /\ loaded(storage').products = products
                 /\ loaded(storage').customers = customers
                 /\ loaded(storage').exchangeRate = exchangeRate
                 /\ loaded(storage').categories = categories ]_vars

\* C21: the exchange rate is above 0 in every state, whatever rates are
\* submitted on the Administration page and however often the application
\* is started again on the storage it wrote.
C21_RatePositive == exchangeRate > 0

\* C21 witness: a rate of 100 submitted in an earlier session has been read
\* back from the storage
C21_Witness ==
    /\ last.op = "rehydrated"
    /\ exchangeRate = 1000
    /\ storage.business_exchange_rate = Num(1000)

\* x / d to the nearest integer, said without computing it: the n next to
\* x / d that is nearest to it (x >= 0, d > 0, no tie)
C22_Nearest(x, d) ==
    CHOOSE n \in { x \div d, x \div d + 1 } :
        \A m \in { x \div d, x \div d + 1 } :
            (IF n * d >= x THEN n * d - x ELSE x - n * d)
                <= (IF m * d >= x THEN m * d - x ELSE x - m * d)
\* price x quantity in cents, to 2 decimals
C22_LineUSD(item) == C22_Nearest(item.price * item.quantity, Unit)
\* price x quantity x rate in cents, to 2 decimals; the product
\* price * quantity is split at Unit * 10 so that the whole part times the
\* rate needs no rounding
C22_LineBS(item) ==
    LET x == item.price * item.quantity IN
    (x \div (Unit * 10)) * exchangeRate
        + C22_Nearest((x % (Unit * 10)) * exchangeRate, Unit * 10)
RECURSIVE C22_Sum(_, _)
C22_Sum(f, n) == IF n = 0 THEN 0 ELSE f[n] + C22_Sum(f, n - 1)

\* C22: subtotalUSD is the sum over the cart lines of price x quantity
\* rounded to 2 decimals, subtotalBS the sum of price x quantity x rate
\* rounded to 2 decimals; one line of price 10 and quantity 3 at a rate of
\* 35.5 gives 30.00 and 1065.00.
C22_Subtotals ==
    /\ calculateSubtotalUSD =
           C22_Sum([i \in DOMAIN cart |-> C22_LineUSD(cart[i])], Len(cart))
    /\ calculateSubtotalBS =
           C22_Sum([i \in DOMAIN cart |-> C22_LineBS(cart[i])], Len(cart))
    /\ ( /\ Len(cart) = 1
         /\ cart[1].price = 1000
         /\ cart[1].quantity = 3 * Unit
         /\ exchangeRate = DefaultExchangeRate )
            => /\ calculateSubtotalUSD = 3000
               /\ calculateSubtotalBS = 106500

\* C22 witness: the cart of the example, and a cart of two lines whose
\* totals are rounded per line
C22_Witness ==
    /\ Len(cart) = 1
    /\ cart[1].price = 1000
    /\ cart[1].quantity = 3 * Unit
    /\ cart[1].stock = 5 * Unit
    /\ exchangeRate = DefaultExchangeRate
    /\ calculateSubtotalUSD = 3000
    /\ calculateSubtotalBS = 106500

\* C23: every line of the cart has a quantity above 0, for the quantities
\* of up to 4 decimals the cart handlers accept (0.004 among them).
C23_CartQuantitiesPositive ==
    \A i \in DOMAIN cart : cart[i].quantity > 0

\* C24: every product of the catalog, added with the form or imported, has
\* profit_margin = price - cost, and profit_percentage =
\* (price - cost) / cost * 100 when cost > 0 and 0 when cost = 0.
C24_ProfitDerived ==
    \A i \in DOMAIN products :
        LET p == products[i] IN
        /\ p.profit_margin = p.price - p.cost
        /\ p.cost > 0 => p.profit_percentage * p.cost = (p.price - p.cost) * 100
        /\ p.cost = 0 => p.profit_percentage = 0

\* C25: no two products of the catalog have the same id, whatever products
\* are added with the form and whatever files are imported (files whose
\* records carry an id field among them).
C25_IdsUnique ==
    \A i, j \in DOMAIN products :
        i # j => products[i].id # products[j].id

\* the labels of the category set: those of the context and those the
\* Administration page holds
C26_Labels == Range(categories) \cup Range(productCategories)

\* C26: the category set never shrinks: a label added in the add-category
\* dialog, registered by addProduct or found by an import is a label of the
\* set in every later state.
C26_CategoriesNeverShrink ==
    [][ C26_Labels \subseteq (Range(categories') \cup Range(productCategories')) ]_vars

\* C27: the time of the last update of the rate changes only when a
\* submitted rate changes the rate; a start reads the stored time back and
\* leaves it as it is, in the state and in the storage.
C27_TimestampFrame ==
    [][ /\ (loadEffect /\ page' = "starting"
                /\ storage.business_exchange_rate_update.k = "num")
            => /\ lastExchangeRateUpdate' = storage.business_exchange_rate_update.v
               /\ storage'.business_exchange_rate_update
                     = storage.business_exchange_rate_update
        /\ rehydrated
            => /\ lastExchangeRateUpdate' = lastExchangeRateUpdate
               /\ storage'.business_exchange_rate_update
                     = storage.business_exchange_rate_update
        /\ (page \notin { "loading", "starting", "crashed" } /\ page' # "loading"
                /\ lastExchangeRateUpdate' # lastExchangeRateUpdate)
            => /\ last'.op = "onExchangeRateSubmit"
               /\ exchangeRate' # exchangeRate ]_vars

\* C28: while the application starts on stored data, the storage holds under
\* business_products and business_customers, after each step of the start,
\* what it held before the start or what the rehydrated state is; never the
\* empty initial state.
C28_StartupKeepsStorage ==
    [][ /\ loadEffect
            => LET l == loaded(storage) IN
               /\ storage'.business_products
                     \in { storage.business_products,
                           JSONText(stringifyProducts(l.products)) }
               /\ storage'.business_customers
                     \in { storage.business_customers,
                           JSONText(stringifyCustomers(l.customers)) }
        /\ rehydrated
            => /\ storage'.business_products = JSONText(stringifyProducts(products))
               /\ storage'.business_customers = JSONText(stringifyCustomers(customers)) ]_vars

\* no label is twice in the list
C29_NoLabelTwice(list) ==
    \A i, j \in DOMAIN list : i # j => list[i] # list[j]

\* C29: when the categories were changed while the file of an import was
\* read, the categories hold no label twice after the import and still
\* hold the labels added in between.
C29_ImportAfterCategoryChange ==
    [][ (readerOnload /\ C29_NoLabelTwice(categories))
            => /\ C29_NoLabelTwice(categories')
               /\ Range(categories) \subseteq Range(categories') ]_vars

\* a submit of admin/admin whose callback has not run yet
C30_Submitted ==
    \E t \in timers : t.username = "admin" /\ t.password = "admin"
\* C30: once admin/admin has been submitted in the login dialog of a
\* protected route, isAuthenticated eventually becomes true and the protected
\* page is rendered (unless the dialog was cancelled before the callback of
\* the submit ran).
C30_AdminLoginAuthenticates ==
    C30_Submitted
        ~> \/ isAuthenticated /\ page \in ProtectedRoutes
           \/ last.op = "cancelLogin"
\* C30, second half: the callback of a submit with other credentials leaves
\* the user and the storage of the authentication as they are.
C30_WrongCredentialsNeverAuthenticate ==
    [][ (\E t \in timers :
            /\ ~(t.username = "admin" /\ t.password = "admin")
            /\ handleLoginTimeout(t))
          => /\ user' = user
             /\ authStorage' = authStorage ]_vars

====
